---------------------------- MODULE Spec2Model ----------------------------
(***************************************************************************)
(* A model of the request orchestration core of Leo: the agent loop        *)
(* (agent/loop_impl.rs), the context assembler (agent/context.rs), the      *)
(* token estimator (agent/tokens.rs), the tool runner (tools/runner.rs),    *)
(* the OAuth2 token state machine (auth/provider.rs, auth/pkce.rs), the     *)
(* callback listener (auth/callback_server.rs), the authenticated backend   *)
(* client (agent/gemini_oauth.rs) with its wire mapping, the Telegram     *)
(* handlers (adapters/telegram.rs), the interactive session (main.rs) and  *)
(* the browser bridge (tools/browser_bridge.rs).                           *)
(*                                                                         *)
(* Texts are sequences of atoms (string pieces), so that concatenation     *)
(* (format!) is sequence concatenation and the character length of a text  *)
(* is the sum of the lengths of its atoms.  Option<T> is a sequence of     *)
(* length at most one: None is << >> and Some(x) is << x >>.               *)
(***************************************************************************)
EXTENDS Integers, Sequences, FiniteSets, TLC

VARIABLES
    \* ---- AgentLoop::run (one turn) ----
    pc,              \* position of run: "idle", "chat", "tool", "returned"
    max_iterations,  \* AgentLoop.max_iterations
    history,         \* the caller-owned prior history of the session
    message,         \* the Message given to run
    messages,        \* run's local `messages` vector
    iteration,       \* number of completed iterations of the for loop
    response,        \* the LlmResponse being processed (tool-call phase)
    tcIdx,           \* index of the next tool call of `response` to execute
    result,          \* what run returned
    chatLog,         \* the message sequences passed to client.chat, in order
    respLog,         \* the outcomes client.chat gave, in order
    execLog,         \* the ToolRunner::execute calls made, in order
    \* ---- Context::build_messages as a pure function ----
    bmHistory,       \* the history argument
    bmCurrent,       \* the current text argument
    bmOut,           \* the returned vector
    bmDone,          \* whether build_messages has been applied
    \* ---- GeminiAuthProvider::get_valid_token ----
    apc,             \* position: "idle", "refreshing", "awaiting_callback",
                     \* "exchanging", "done"
    credFile,        \* ~/.leo/credentials.json
    now,             \* Utc::now(), in minutes
    loaded,          \* the Credentials get_valid_token loaded
    authResult,      \* what get_valid_token returned
    refreshRequests, \* refresh_token requests sent to the token endpoint
    browserOpens,    \* authorization flows started (browser opened)
    listenerBinds,   \* callback listeners bound
    exchangeRequests,\* authorization_code requests sent to the token endpoint
    fileWrites,      \* writes to the credential file
    tokenResp,       \* the TokenResponse the token endpoint last gave, if any
    pkce,            \* authorize's PkcePair
    state,           \* authorize's `state` (generate_state)
    authUrl,         \* the authorization URL opened in the browser
    waitArg,         \* the expected_state authorize gave to wait_for_callback
    auth_result,     \* the AuthorizationResult wait_for_callback returned
    exchangeForm,    \* the TokenExchangeRequest posted by exchange_code
    \* ---- wait_for_callback (one authorization attempt) ----
    cbpc,            \* position: "idle", "listening", "connected", "parsed", "done"
    expected_state,  \* the expected_state argument
    request,         \* what the one socket.read gave
    accepts,         \* connections accepted by the listener
    reads,           \* socket.read calls
    httpResponse,    \* status line of the response given to write_all
    parsed,          \* what parse_callback_request returned
    cbResult,        \* what wait_for_callback returned
    \* ---- GeminiOAuthClient::get_or_fetch_project_id ----
    ppc,             \* position: "idle", "loading", "onboarding", "sleeping",
                     \* "polling", "done"
    project_id,      \* GeminiOAuthClient.project_id
    env,             \* GOOGLE_CLOUD_PROJECT and GOOGLE_CLOUD_PROJECT_ID
    loadRequests,    \* loadCodeAssist requests sent
    onboardRequests, \* onboardUser requests sent
    pollRequests,    \* operation polls sent
    pollWaits,       \* sleeps taken by poll_operation
    waited,          \* seconds slept by poll_operation
    lastPoll,        \* the answer to the last poll
    projResult,      \* what get_or_fetch_project_id returned
    \* ---- GeminiOAuthClient::chat (the request loop) ----
    rpc,             \* position: "idle", "sending", "sleeping", "done"
    retry_count,     \* chat's retry_count
    backoff,         \* chat's backoff, in ticks
    requests,        \* generateContent requests sent
    lastResponse,    \* the answer to the last generateContent request
    sleeps,          \* the delays slept before the retries, in order
    tokenCalls,      \* get_valid_token calls made by chat
    chatResult,      \* what chat returned
    \* ---- TelegramChannel (the gateway's message handlers) ----
    allow_from,      \* config.telegram.allow_from, as a set
    updates,         \* the messages received: chat id and sender of each
    hpc,             \* position of each handle_message task
    locks,           \* the lock map: chat id -> lock instance (0: no entry)
    lock,            \* the lock instance each handler took from the map
    guards,          \* the lock instances whose guard is held, with the holder
    runsStarted,     \* AgentLoop::run calls started, per message
    sent,            \* replies sent to the chat, per message
    contexts,        \* Context::new calls made by the gateway process
    \* ---- concurrent authorization attempts on the callback port ----
    atpc,            \* position of each attempt
    portHolder,      \* the attempt whose listener holds port 8085 (0: free)
    atState,         \* the state parameter each attempt generated
    atResult,        \* what each attempt's wait_for_callback returned
    delivered,       \* callbacks delivered: origin, receiver, holder at the time
    \* ---- interactive CLI session ----
    cliPc,           \* position: "idle", "prompt", "running", "exited"
    cliHistory,      \* the session's history
    cliInput,        \* the line being processed
    cliArg,          \* the history slice handed to the running AgentLoop::run
    cliTurn,         \* outcome and local messages of the last AgentLoop::run
    cliBefore,       \* the history as it was when the last turn started
    cliTurns,        \* turns taken
    cliContexts,     \* Context::new calls made by the session
    \* ---- ToolRunner::execute, one call ----
    tools,           \* the registry: name -> what that tool's execute returns
    toolName,        \* the name asked for
    toolParams,      \* the arguments given
    toolOut,         \* what execute returned
    toolExecs,       \* the tools executed, in order
    toolDone,        \* execute has returned
    \* ---- truncate_history, one call ----
    thMessages,      \* the messages given
    thMax,           \* max_tokens
    thOut,           \* the slice returned
    thDone,          \* truncate_history has returned
    \* ---- Credentials::is_expired, one call ----
    exCreds,         \* the credentials asked
    exNow,           \* Utc::now() at the call
    exOut,           \* what is_expired returned
    exDone,          \* is_expired has returned
    \* ---- parse_response, the loop's pushes and convert_messages, one response ----
    wpc,             \* position: "idle", "parsed", "pushed", "converted"
    candidates,      \* response.candidates.first(): the parts of the first candidate
    llmResponse,     \* what parse_response returned
    wireMessages,    \* the messages run holds after handling the response
    contents,        \* what convert_messages made of them
    \* ---- estimate_tokens, one call ----
    esText,          \* the text given
    esOut,           \* the estimate returned
    esDone,          \* estimate_tokens has returned
    \* ---- the answers get_or_fetch_project_id last read ----
    lastLoad,        \* the loadCodeAssist answer last read
    lastOnboard,     \* the onboardUser answer last read
    \* ---- chat calls on one client ----
    chatCalls,       \* chat calls that followed the first on this client
    \* ---- get_valid_token, what the attempt met ----
    callbackRead,    \* what the callback listener met: a failure or a request's parameters
    fileAtCall,      \* the credential file as get_valid_token found it
    \* ---- Context and its cached bootstrap text ----
    cpc,             \* "none" before Context::new, then "ready"
    files,           \* the bootstrap files on disk: name -> content
    memoryText,      \* what memory.get_context() gives
    cached_bootstrap,\* Context.cached_bootstrap
    loadedFiles,     \* the files as they were at the last load
    ctxOp,           \* the operation last run
    ctxPrompt,       \* what build_system_prompt last returned
    \* ---- ToolRunner: register, definitions, execute ----
    runnerTools,     \* ToolRunner.tools: key -> tool
    lastRegistered,  \* the tool last given to register
    regDefs,         \* what definitions() last returned
    regAsked,        \* the name last given to execute
    regOut,          \* what that execute returned
    regOp,           \* the operation last run on the runner
    \* ---- the browser bridge: connection handlers and the browser tool ----
    bpc,             \* each connection handler: "none", "handshake", "serving", "leaving", "finished"
    command_sender,  \* BrowserBridgeTool.command_sender: the connection whose channel it sends to
    bridgeOut,       \* what the browser tool's execute last returned
    bridgeTo         \* the connection that execute sent its command to, 0 for none

loopVars == <<pc, max_iterations, history, message, messages, iteration,
              response, tcIdx, result, chatLog, respLog, execLog>>
bmVars == <<bmHistory, bmCurrent, bmOut, bmDone>>
attemptVars == <<pkce, state, authUrl, waitArg>>
authVars == <<apc, credFile, now, loaded, authResult, refreshRequests, browserOpens,
               listenerBinds, exchangeRequests, fileWrites, tokenResp, attemptVars,
               auth_result, exchangeForm, callbackRead, fileAtCall>>
cbVars == <<cbpc, expected_state, request, accepts, reads, httpResponse, parsed,
            cbResult>>
projVars == <<ppc, project_id, env, loadRequests, onboardRequests, pollRequests,
               pollWaits, waited, lastPoll, projResult, lastLoad, lastOnboard>>
retryVars == <<rpc, retry_count, backoff, requests, lastResponse, sleeps, tokenCalls,
               chatResult>>
tgVars == <<allow_from, updates, hpc, locks, lock, guards, runsStarted, sent,
            contexts>>
portVars == <<atpc, portHolder, atState, atResult, delivered>>
cliVars == <<cliPc, cliHistory, cliInput, cliArg, cliTurn, cliBefore, cliTurns,
             cliContexts>>
toolVars == <<tools, toolName, toolParams, toolOut, toolExecs, toolDone>>
truncVars == <<thMessages, thMax, thOut, thDone>>
expVars == <<exCreds, exNow, exOut, exDone>>
frontVars == <<tgVars, portVars, cliVars, toolVars, truncVars, expVars>>
backVars == <<loopVars, bmVars, authVars, cbVars, projVars, retryVars>>
wireVars == <<wpc, candidates, llmResponse, wireMessages, contents>>
estVars == <<esText, esOut, esDone>>
callsVars == <<chatCalls>>
ctxVars == <<cpc, files, memoryText, cached_bootstrap, loadedFiles, ctxOp, ctxPrompt>>
regVars == <<runnerTools, lastRegistered, regDefs, regAsked, regOut, regOp>>
bridgeVars == <<bpc, command_sender, bridgeOut, bridgeTo>>
lateVars == <<wireVars, estVars, callsVars, ctxVars, regVars, bridgeVars>>
vars == <<backVars, frontVars, lateVars>>

----------------------------------------------------------------------------
(* Bounds of the model *)

\* largest max_iterations the loop is configured with
MaxIter == 3
\* largest number of tool calls in one backend response
MaxCalls == 2
\* largest number of tool executions in one run (caps the backend's requests)
MaxExec == 3
\* longest history given to build_messages
MaxHistLen == 100
\* latest time (minutes) at which get_valid_token starts
MaxNow == 2
\* latest expiry (minutes) of the persisted credentials
MaxExpiry == 9

----------------------------------------------------------------------------
(* Option and text helpers *)

None == << >>
Some(x) == << x >>
IsSome(o) == Len(o) = 1
\* Option::unwrap_or_default for Option<String>
unwrap_or_default(o) == IF IsSome(o) THEN o[1] ELSE << >>

\* the decimal rendering of a small index (format!("{}", i))
IntToStr(i) ==
    CASE i = 0 -> "0" [] i = 1 -> "1" [] i = 2 -> "2" [] i = 3 -> "3"
      [] i = 4 -> "4" [] i = 5 -> "5" [] i = 6 -> "6" [] i = 7 -> "7"
      [] i = 8 -> "8" [] OTHER -> "9"

RECURSIVE Digits(_)
\* the decimal digits of a natural number, as atoms
Digits(n) == IF n < 10 THEN <<IntToStr(n)>> ELSE Digits(n \div 10) \o <<IntToStr(n % 10)>>

\* number of characters (bytes) of an atom
CharLen(a) ==
    CASE a = "Error: " -> 7
      [] a = "Tool error: " -> 12
      [] a = "IO error: " -> 10
      [] a = "Unknown tool: " -> 14
      [] a = "read_file" -> 9
      [] a = "nope" -> 4
      [] a = "LLM error: " -> 11
      [] a = "Authentication error: " -> 22
      [] a = "tc_" -> 3
      [] a = "a" -> 1
      [] a = "Hi" -> 2
      [] a = "Hello" -> 5
      [] a = "Hi there" -> 8
      [] a = "Read test.txt" -> 13
      [] a = "Hello, human!" -> 13
      [] a = "Let me check." -> 13
      [] a = "test content" -> 12
      [] a = "Failed to read test.txt" -> 23
      [] a = "<system prompt>" -> 1600
      [] a = "<huge file>" -> 128004
      [] OTHER -> 2

RECURSIVE TextLen(_)
\* str::len of a text
TextLen(t) == IF t = << >> THEN 0 ELSE CharLen(Head(t)) + TextLen(Tail(t))

----------------------------------------------------------------------------
(* agent/tokens.rs *)

CHARS_PER_TOKEN == 4
TOTAL_BUDGET == 32000
HISTORY_BUDGET == 8000

\* faulty variant: the division rounds down
estimate_tokens_floor(n) == n \div CHARS_PER_TOKEN
\* estimate_tokens on a text of the given length
estimate_tokens_len(n) == (n + CHARS_PER_TOKEN - 1) \div CHARS_PER_TOKEN
estimate_tokens(t) == estimate_tokens_len(TextLen(t))

----------------------------------------------------------------------------
(* error.rs *)

NoError == [kind |-> "", msg |-> << >>]
ErrorOf(k, m) == [kind |-> k, msg |-> m]
MaxIterationsError == ErrorOf("MaxIterations", << >>)

\* impl Display for Error (thiserror attributes)
Display(e) ==
    CASE e.kind = "Tool" -> <<"Tool error: ">> \o e.msg
      [] e.kind = "Io" -> <<"IO error: ">> \o e.msg
      [] e.kind = "Llm" -> <<"LLM error: ">> \o e.msg
      [] e.kind = "Auth" -> <<"Authentication error: ">> \o e.msg
      [] e.kind = "OAuth" -> <<"OAuth error: ">> \o e.msg
      [] e.kind = "MaxIterations" -> <<"Max iterations reached">>
      [] OTHER -> e.msg

----------------------------------------------------------------------------
(* agent/message.rs *)

system(content) ==
    [role |-> "system", content |-> content, tool_call_id |-> None, tool_calls |-> None]
user(content) ==
    [role |-> "user", content |-> content, tool_call_id |-> None, tool_calls |-> None]
assistant(content) ==
    [role |-> "assistant", content |-> content, tool_call_id |-> None, tool_calls |-> None]
assistant_with_tools(content, calls) ==
    [role |-> "assistant", content |-> content, tool_call_id |-> None,
     tool_calls |-> Some(calls)]
\* faulty variant: the tool result loses its correlation id
tool_result_no_id(call_id, res) ==
    [role |-> "tool", content |-> res, tool_call_id |-> None, tool_calls |-> None]
tool_result(call_id, res) ==
    [role |-> "tool", content |-> res, tool_call_id |-> Some(call_id), tool_calls |-> None]

ToolCallRequest(id, name) == [id |-> id, name |-> name, arguments |-> "{path:test.txt}"]

\* LlmResponse::has_tool_calls
has_tool_calls(r) == r.tool_calls # << >>

----------------------------------------------------------------------------
(* agent/context.rs *)

MAX_HISTORY_MESSAGES == 40

\* Context::build_system_prompt: identity, bootstrap, memory and skills joined
build_system_prompt == <<"<system prompt>">>

\* faulty variant: the window keeps the oldest messages instead of the most recent
build_messages_head(hist, current) ==
    LET windowed_history ==
            IF Len(hist) > MAX_HISTORY_MESSAGES
            THEN SubSeq(hist, 1, MAX_HISTORY_MESSAGES)
            ELSE hist
    IN  <<system(build_system_prompt)>> \o windowed_history \o <<user(current)>>
\* Context::build_messages
build_messages(hist, current) ==
    LET windowed_history ==
            IF Len(hist) > MAX_HISTORY_MESSAGES
            THEN SubSeq(hist, Len(hist) - MAX_HISTORY_MESSAGES + 1, Len(hist))
            ELSE hist
    IN  <<system(build_system_prompt)>> \o windowed_history \o <<user(current)>>


----------------------------------------------------------------------------
(* tools/runner.rs *)

\* Result<String>
Ok(v) == [ok |-> TRUE, val |-> v, err |-> NoError]
Err(e) == [ok |-> FALSE, val |-> << >>, err |-> e]

\* the names registered in the Context's ToolRunner (new_with_defaults)
tool_runner == {"read_file"}

\* the names a backend response may request
RequestedNames == {"read_file", "nope"}

\* what a registered tool's own execute may return
ToolOutcomes ==
    { Ok(<<"test content">>), Ok(<<"<huge file>">>),
      Err(ErrorOf("Tool", <<"Failed to read test.txt">>)) }

\* ToolRunner::execute: `outcome` is what the tool's execute returns when it runs
ToolRunner_execute(name, outcome) ==
    IF name \notin tool_runner
    THEN Err(ErrorOf("Tool", <<"Unknown tool: ", name>>))
    ELSE outcome

----------------------------------------------------------------------------
(* agent/loop_impl.rs *)

\* Response::new(content) / Err(e) as returned by run
NoResult == [status |-> "none", content |-> << >>, error |-> NoError]
RunOk(content) == [status |-> "ok", content |-> content, error |-> NoError]
RunErr(e) == [status |-> "err", content |-> << >>, error |-> e]

NoResponse == [content |-> None, tool_calls |-> << >>]

\* Result<LlmResponse> as given by client.chat
ChatOk(r) == [ok |-> TRUE, resp |-> r, err |-> NoError]
ChatErr(e) == [ok |-> FALSE, resp |-> NoResponse, err |-> e]

\* the ids parse_response gives the function calls of one response: tc_<index>
CallId(i) == <<"tc_">> \o Digits(i)

\* the tool-call lists a backend response may carry (1..n calls)
ToolCallLists(n) ==
    { [i \in DOMAIN names |-> ToolCallRequest(CallId(i - 1), names[i])] :
        names \in UNION { [1..k -> RequestedNames] : k \in 1..n } }

\* the responses client.chat may give
TextResponses ==
    { [content |-> c, tool_calls |-> << >>] : c \in {None, Some(<<"Hello, human!">>)} }
ToolResponses(n) ==
    { [content |-> c, tool_calls |-> calls] :
        c \in {None, Some(<<"Let me check.">>)}, calls \in ToolCallLists(n) }
BackendErrors ==
    { ErrorOf("Llm", <<"API error">>), ErrorOf("Auth", <<"Token expired">>) }

\* faulty variant: the error text is pushed without the "Error: " prefix
execute_tool_no_prefix(res) ==
    IF res.ok THEN res.val ELSE Display(res.err)
\* AgentLoop::execute_tool: the text pushed for a ToolRunner::execute result
execute_tool(res) ==
    IF res.ok THEN res.val ELSE <<"Error: ">> \o Display(res.err)

\* faulty variant: the iteration bound is off by one
LoopEntersOffByOne(i) == i <= max_iterations
\* the `for iteration in 0..self.max_iterations` test for entering iteration i
LoopEnters(i) == i < max_iterations

\* faulty variant: only the first tool call of a response is executed
HasNextToolCallNever(idx, calls) == FALSE
\* `for tool_call in &response.tool_calls`: another call follows the idx-th
HasNextToolCall(idx, calls) == idx < Len(calls)

\* faulty variant: a failed chat call is silently retried
ChatErrorRetries(e) == [pc |-> "chat", result |-> NoResult]
\* `self.client.chat(..).await?`: the error is returned from run at once
ChatErrorStep(e) == [pc |-> "returned", result |-> RunErr(e)]

\* faulty variant: a response with text is final even when it carries tool calls
IsFinalIfText(r) == r.tool_calls = << >> \/ IsSome(r.content)
\* `if !response.has_tool_calls()`: the response ends the turn
IsFinal(r) == ~has_tool_calls(r)

\* AgentLoop::run up to its first await: build the messages, enter the loop
Run ==
    /\ pc = "idle"
    /\ messages' = build_messages(<< >>, message.content)
    /\ iteration' = 0
    /\ IF LoopEnters(0)
       THEN pc' = "chat" /\ result' = result
       ELSE pc' = "returned" /\ result' = RunErr(MaxIterationsError)
    /\ UNCHANGED <<max_iterations, history, message, response, tcIdx,
                   chatLog, respLog, execLog>>

\* client.chat(&messages, &tools) fails: `?` returns the error
ChatFails ==
    /\ pc = "chat"
    /\ \E e \in BackendErrors :
        /\ chatLog' = Append(chatLog, messages)
        /\ respLog' = Append(respLog, ChatErr(e))
        /\ result' = ChatErrorStep(e).result
        /\ pc' = ChatErrorStep(e).pc
    /\ UNCHANGED <<max_iterations, history, message, messages, iteration,
                   response, tcIdx, execLog>>

\* client.chat(&messages, &tools) answers, and run handles the answer up to
\* the next await (return, or the first tool execution)
Chat ==
    /\ pc = "chat"
    /\ \E r \in TextResponses \cup ToolResponses(MaxCalls) :
        /\ Len(execLog) + Len(r.tool_calls) <= MaxExec
        /\ chatLog' = Append(chatLog, messages)
        /\ respLog' = Append(respLog, ChatOk(r))
        /\ IF IsFinal(r)
           THEN /\ result' = RunOk(unwrap_or_default(r.content))
                /\ pc' = "returned"
                /\ UNCHANGED <<messages, response, tcIdx>>
           ELSE /\ messages' = Append(messages,
                        assistant_with_tools(unwrap_or_default(r.content), r.tool_calls))
                /\ response' = r
                /\ tcIdx' = 1
                /\ pc' = "tool"
                /\ result' = result
    /\ UNCHANGED <<max_iterations, history, message, iteration, execLog>>

\* one pass of `for tool_call in &response.tool_calls`: execute_tool and push
\* the tool result; after the last call the for loop over iterations advances
ExecuteTool ==
    /\ pc = "tool"
    /\ LET tool_call == response.tool_calls[tcIdx]
           ran == tool_call.name \in tool_runner
       IN  \E outcome \in (IF ran THEN ToolOutcomes ELSE {Ok(<< >>)}) :
             LET res == ToolRunner_execute(tool_call.name, outcome)
             IN  /\ messages' = Append(messages,
                                       tool_result(tool_call.id, execute_tool(res)))
                 /\ execLog' = Append(execLog,
                        [iteration |-> iteration, index |-> tcIdx, id |-> tool_call.id,
                         name |-> tool_call.name, ran |-> ran, res |-> res])
    /\ IF HasNextToolCall(tcIdx, response.tool_calls)
       THEN /\ tcIdx' = tcIdx + 1
            /\ UNCHANGED <<pc, iteration, result>>
       ELSE /\ tcIdx' = 0
            /\ iteration' = iteration + 1
            /\ IF LoopEnters(iteration + 1)
               THEN pc' = "chat" /\ result' = result
               ELSE pc' = "returned" /\ result' = RunErr(MaxIterationsError)
    /\ UNCHANGED <<max_iterations, history, message, response, chatLog, respLog>>

\* the histories a caller may own when it starts a turn: none, or one earlier
\* turn (user message and the assistant's answer; main.rs run_agent_interactive)
PriorHistories ==
    { << >>, <<user(<<"Hi there">>), assistant(<<"Hello, human!">>)>> }

UserMessages == { user(<<"Hi there">>), user(<<"Read test.txt">>) }

LoopIdle ==
    /\ pc = "idle"
    /\ max_iterations = 0
    /\ history = << >>
    /\ message = user(<<"Hi there">>)
    /\ messages = << >>
    /\ iteration = 0
    /\ response = NoResponse
    /\ tcIdx = 0
    /\ result = NoResult
    /\ chatLog = << >>
    /\ respLog = << >>
    /\ execLog = << >>

BmIdle ==
    /\ bmHistory = << >>
    /\ bmCurrent = << >>
    /\ bmOut = << >>
    /\ bmDone = FALSE

NoCredentials == [access_token |-> "", refresh_token |-> None, expires_at |-> None]
AbsentFile == [state |-> "absent", creds |-> NoCredentials, mode |-> "none"]
NoAuthResult == [status |-> "none", token |-> "", error |-> NoError]

NoPkce == [verifier |-> "", challenge |-> << >>]

\* authorize has not run: no PKCE pair, no state, no URL, no callback, no exchange
NoRequest == [line |-> "none", pairs |-> << >>]

NoCallback == [line |-> "none", error |-> FALSE, state |-> << >>, code |-> FALSE]

NoAttempt ==
    /\ tokenResp = None
    /\ pkce = NoPkce
    /\ state = ""
    /\ authUrl = None
    /\ waitArg = << >>
    /\ auth_result = None
    /\ exchangeForm = None

AuthIdle ==
    /\ apc = "idle"
    /\ credFile = AbsentFile
    /\ now = 0
    /\ loaded = NoCredentials
    /\ authResult = NoAuthResult
    /\ refreshRequests = 0
    /\ browserOpens = 0
    /\ listenerBinds = 0
    /\ exchangeRequests = 0
    /\ fileWrites = 0
    /\ NoAttempt
    /\ callbackRead = NoCallback
    /\ fileAtCall = AbsentFile

NoAuthorization == [code |-> "", state |-> None]
NoCbResult == [status |-> "none", auth |-> NoAuthorization, error |-> NoError]

CbIdle ==
    /\ cbpc = "idle"
    /\ expected_state = None
    /\ request = NoRequest
    /\ accepts = 0
    /\ reads = 0
    /\ httpResponse = ""
    /\ parsed = NoCbResult
    /\ cbResult = NoCbResult

NoEnv == [GOOGLE_CLOUD_PROJECT |-> None, GOOGLE_CLOUD_PROJECT_ID |-> None]
NoProjResult == [status |-> "none", project |-> "", error |-> NoError]

NoOnboardReply == [kind |-> "none", name |-> FALSE, done |-> FALSE, project |-> FALSE]

ProjIdle ==
    /\ ppc = "idle"
    /\ project_id = None
    /\ env = NoEnv
    /\ loadRequests = 0
    /\ onboardRequests = 0
    /\ pollRequests = 0
    /\ pollWaits = 0
    /\ waited = 0
    /\ lastPoll = "none"
    /\ projResult = NoProjResult
    /\ lastLoad = "none"
    /\ lastOnboard = NoOnboardReply

NoChatResult == [status |-> "none", error |-> NoError]
NoReply == [status |-> 0, body |-> ""]

RetryIdle ==
    /\ rpc = "idle"
    /\ retry_count = 0
    /\ backoff = 0
    /\ requests = 0
    /\ lastResponse = NoReply
    /\ sleeps = << >>
    /\ tokenCalls = 0
    /\ chatResult = NoChatResult

TgIdle ==
    /\ allow_from = {}
    /\ updates = << >>
    /\ hpc = << >>
    /\ locks = << >>
    /\ lock = << >>
    /\ guards = {}
    /\ runsStarted = << >>
    /\ sent = << >>
    /\ contexts = 0

PortIdle ==
    /\ atpc = << >>
    /\ portHolder = 0
    /\ atState = << >>
    /\ atResult = << >>
    /\ delivered = {}

CliIdle ==
    /\ cliPc = "idle"
    /\ cliHistory = << >>
    /\ cliInput = << >>
    /\ cliArg = << >>
    /\ cliTurn = NoResult
    /\ cliBefore = << >>
    /\ cliTurns = 0
    /\ cliContexts = 0

ToolIdle ==
    /\ tools = << >>
    /\ toolName = ""
    /\ toolParams = ""
    /\ toolOut = << >>
    /\ toolExecs = << >>
    /\ toolDone = FALSE

TruncIdle ==
    /\ thMessages = << >>
    /\ thMax = 0
    /\ thOut = << >>
    /\ thDone = FALSE

ExpIdle ==
    /\ exCreds = << >>
    /\ exNow = 0
    /\ exOut = FALSE
    /\ exDone = FALSE

FrontIdle == TgIdle /\ PortIdle /\ CliIdle /\ ToolIdle /\ TruncIdle /\ ExpIdle

WireIdle ==
    /\ wpc = "idle"
    /\ candidates = << >>
    /\ llmResponse = << >>
    /\ wireMessages = << >>
    /\ contents = << >>
EstIdle ==
    /\ esText = << >>
    /\ esOut = 0
    /\ esDone = FALSE
CallsIdle ==
    /\ chatCalls = 0
\* `const BOOTSTRAP_FILES: [&str; 6]`
BOOTSTRAP_FILES == <<"AGENTS.md", "SOUL.md", "USER.md", "IDENTITY.md", "TOOLS.md", "MEMORY.md">>
\* a workspace without bootstrap files
NoFiles == [i \in DOMAIN BOOTSTRAP_FILES |-> "absent"]

CtxIdle ==
    /\ cpc = "none"
    /\ files = NoFiles
    /\ memoryText = << >>
    /\ cached_bootstrap = << >>
    /\ loadedFiles = NoFiles
    /\ ctxOp = "none"
    /\ ctxPrompt = << >>
NoTool == [name |-> "", result |-> ""]

RegIdle ==
    /\ runnerTools = << >>
    /\ lastRegistered = NoTool
    /\ regDefs = << >>
    /\ regAsked = ""
    /\ regOut = << >>
    /\ regOp = "none"
BridgeIdle ==
    /\ bpc = << >>
    /\ command_sender = << >>
    /\ bridgeOut = "none"
    /\ bridgeTo = 0

LateIdle == WireIdle /\ EstIdle /\ CallsIdle /\ CtxIdle /\ RegIdle /\ BridgeIdle

BackIdle == LoopIdle /\ BmIdle /\ AuthIdle /\ CbIdle /\ ProjIdle /\ RetryIdle

Init ==
    /\ pc = "idle"
    /\ max_iterations \in 0..MaxIter
    /\ history \in PriorHistories
    /\ message \in UserMessages
    /\ messages = << >>
    /\ iteration = 0
    /\ response = NoResponse
    /\ tcIdx = 0
    /\ result = NoResult
    /\ chatLog = << >>
    /\ respLog = << >>
    /\ execLog = << >>
    /\ BmIdle
    /\ AuthIdle
    /\ CbIdle
    /\ ProjIdle
    /\ RetryIdle
    /\ FrontIdle
    /\ LateIdle

Next ==
    \/ Run /\ UNCHANGED <<bmVars, authVars, cbVars, projVars, retryVars, frontVars, lateVars>>
    \/ ChatFails /\ UNCHANGED <<bmVars, authVars, cbVars, projVars, retryVars, frontVars, lateVars>>
    \/ Chat /\ UNCHANGED <<bmVars, authVars, cbVars, projVars, retryVars, frontVars, lateVars>>
    \/ ExecuteTool /\ UNCHANGED <<bmVars, authVars, cbVars, projVars, retryVars, frontVars, lateVars>>

Spec == Init /\ [][Next]_vars

----------------------------------------------------------------------------
(* Context::build_messages applied to histories of every length *)

\* the history "Message 0" .. "Message n-1" of a session: user and assistant
\* messages in turn
HistoryOfLen(n) ==
    [i \in 1..n |->
        IF i % 2 = 1 THEN user(<<"Message ">> \o Digits(i - 1))
        ELSE assistant(<<"Message ">> \o Digits(i - 1))]

BmInit ==
    /\ LoopIdle
    /\ AuthIdle
    /\ CbIdle
    /\ ProjIdle
    /\ RetryIdle
    /\ FrontIdle
    /\ LateIdle
    /\ bmHistory \in { HistoryOfLen(n) : n \in 0..MaxHistLen }
    /\ bmCurrent \in { <<"Current">>, << >> }
    /\ bmOut = << >>
    /\ bmDone = FALSE

\* one call of ctx.build_messages(&history, current)
BuildMessages ==
    /\ ~bmDone
    /\ bmOut' = build_messages(bmHistory, bmCurrent)
    /\ bmDone' = TRUE
    /\ UNCHANGED <<bmHistory, bmCurrent, loopVars, authVars, cbVars, projVars,
                   retryVars, frontVars, lateVars>>

BmNext == BuildMessages

BmSpec == BmInit /\ [][BmNext]_vars

----------------------------------------------------------------------------
(* auth/pkce.rs and auth/callback_server.rs *)

\* most query pairs in a callback request
MaxPairs == 3

\* the verifiers generate_code_verifier may draw
Verifiers == {"verifier_1", "verifier_2"}
\* the states generate_state may draw
States == {"state_1", "state_2"}

\* generate_code_challenge: BASE64URL(SHA256(verifier)), a function of the
\* verifier alone that gives different challenges for different verifiers
generate_code_challenge(verifier) == <<"BASE64URL(SHA256(", verifier, "))">>

\* PkcePair::new with the verifier generate_code_verifier drew
PkcePair_new(verifier) ==
    [verifier |-> verifier, challenge |-> generate_code_challenge(verifier)]

\* Result<AuthorizationResult>
CbOk(code, st) ==
    [status |-> "ok", auth |-> [code |-> code, state |-> st], error |-> NoError]
CbErr(msg) ==
    [status |-> "err", auth |-> NoAuthorization, error |-> ErrorOf("OAuth", msg)]

\* the (key, value) pairs a callback query may carry
QueryPairs ==
    { <<"code", "code_1">>, <<"code", "code_2">>,
      <<"state", "state_1">>, <<"state", "state_2">>,
      <<"error", "access_denied">>, <<"error_description", "User denied">>,
      <<"scope", "email">> }

\* what one socket.read may give: nothing, a request line of one word, a path
\* Url::parse rejects, or `GET /callback?<pairs> HTTP/1.1`
CallbackRequests ==
    { [line |-> l, pairs |-> << >>] : l \in {"none", "short", "bad_url"} }
    \cup { [line |-> "ok", pairs |-> ps] :
              ps \in UNION { [1..n -> QueryPairs] : n \in 0..MaxPairs } }

\* the value the loop over url.query_pairs() leaves in the variable of key k:
\* the value of the last pair with that key
RECURSIVE QueryParam(_, _)
QueryParam(pairs, k) ==
    IF pairs = << >> THEN None
    ELSE LET last == pairs[Len(pairs)]
         IN  IF last[1] = k THEN Some(last[2])
             ELSE QueryParam(SubSeq(pairs, 1, Len(pairs) - 1), k)

\* faulty variant: the description is dropped from the message
AuthorizationFailedNoDescription(err, error_description) ==
    <<"Authorization failed: ", err>>
\* format!("Authorization failed: {} - {}", err, description)
AuthorizationFailed(err, error_description) ==
    <<"Authorization failed: ", err, " - ",
      IF IsSome(error_description) THEN error_description[1] ELSE "Unknown error">>

\* faulty variant: any state is accepted
StateAcceptedAlways(st, expected) == TRUE
\* `Some(s) if s == expected => {}`, or no expected state
StateAccepted(st, expected) ==
    IsSome(expected) => (IsSome(st) /\ st[1] = expected[1])

\* parse_callback_request(request, expected_state)
parse_callback_request(req, expected) ==
    CASE req.line = "none" -> CbErr(<<"Empty request">>)
      [] req.line = "short" -> CbErr(<<"Invalid request format">>)
      [] req.line = "bad_url" -> CbErr(<<"Failed to parse callback URL: ">>)
      [] OTHER ->
          LET code == QueryParam(req.pairs, "code")
              st == QueryParam(req.pairs, "state")
              error == QueryParam(req.pairs, "error")
              error_description == QueryParam(req.pairs, "error_description")
          IN  IF IsSome(error)
              THEN CbErr(AuthorizationFailed(error[1], error_description))
              ELSE IF ~StateAccepted(st, expected)
              THEN IF IsSome(st)
                   THEN CbErr(<<"State mismatch: expected ", expected[1],
                                ", got ", st[1]>>)
                   ELSE CbErr(<<"Missing state parameter">>)
              ELSE IF ~IsSome(code)
              THEN CbErr(<<"Missing authorization code">>)
              ELSE CbOk(code[1], st)

\* what wait_for_callback(expected) may return once the listener is bound: a
\* failed accept, a failed read, or the parse of the request that was read
CallbackOutcomes(expected) ==
    { CbErr(<<"Failed to accept connection: ">>), CbErr(<<"Failed to read request: ">>) }
    \cup { parse_callback_request(req, expected) : req \in CallbackRequests }

\* what the listener of wait_for_callback may meet: a failed accept, a failed
\* read, or a request
CallbackEvents ==
    { [line |-> l, pairs |-> << >>] : l \in {"accept_failed", "read_failed"} }
    \cup CallbackRequests

\* what the listener met, as the loop over url.query_pairs() reads it: whether
\* an error and a code are given, and the state given
CallbackSeen(met) ==
    [line |-> met.line,
     error |-> IsSome(QueryParam(met.pairs, "error")),
     state |-> QueryParam(met.pairs, "state"),
     code |-> IsSome(QueryParam(met.pairs, "code"))]

\* wait_for_callback(expected) by what the listener met
CallbackOutcome(met, expected) ==
    CASE met.line = "accept_failed" -> CbErr(<<"Failed to accept connection: ">>)
      [] met.line = "read_failed" -> CbErr(<<"Failed to read request: ">>)
      [] OTHER -> parse_callback_request(met, expected)

----------------------------------------------------------------------------
(* auth/credentials.rs and auth/provider.rs *)

\* chrono::Duration::minutes(5), the expiry buffer of is_expired
EXPIRY_BUFFER == 5
\* expires_in of a token response, in minutes
TokenLifetime == 60

\* faulty variant: the buffer's edge counts as not expired (`>` for `>=`)
is_expired_after_edge(creds, t) ==
    IF IsSome(creds.expires_at) THEN t + EXPIRY_BUFFER > creds.expires_at[1] ELSE FALSE
\* Credentials::is_expired at time t
is_expired(creds, t) ==
    IF IsSome(creds.expires_at) THEN t + EXPIRY_BUFFER >= creds.expires_at[1] ELSE FALSE

\* Credentials::can_refresh
can_refresh(creds) == IsSome(creds.refresh_token)

\* Credentials::new(access_token, refresh_token, expires_in) at time t
Credentials_new(access, refresh, expires_in, t) ==
    [access_token |-> access, refresh_token |-> refresh,
     expires_at |-> IF IsSome(expires_in) THEN Some(t + expires_in[1]) ELSE None]

\* load_credentials: Ok(None) for an absent file, Err for one that cannot be
\* read or parsed, Ok(Some(creds)) otherwise
load_credentials(file) ==
    CASE file.state = "absent" -> [ok |-> TRUE, creds |-> None, err |-> NoError]
      [] file.state = "corrupt" ->
            [ok |-> FALSE, creds |-> None, err |-> ErrorOf("Json", <<"expected value">>)]
      [] OTHER -> [ok |-> TRUE, creds |-> Some(file.creds), err |-> NoError]

\* how far save_credentials gets: all of it, not to the write, or to the write
\* but not through set_permissions
SaveOutcomes == {"saved", "write_failed", "chmod_failed"}

\* save_credentials(creds) on the file, by outcome: the file afterwards
save_credentials(file, creds, outcome) ==
    CASE outcome = "saved" -> [state |-> "present", creds |-> creds, mode |-> "0600"]
      [] outcome = "chmod_failed" ->
            [state |-> "present", creds |-> creds,
             mode |-> IF file.state = "absent" THEN "default" ELSE file.mode]
      [] OTHER -> file

\* the token endpoint's answers to a refresh or an exchange
TokenResponses(access) ==
    { [access_token |-> access, refresh_token |-> r, expires_in |-> e] :
        r \in {None, Some("rt_new")}, e \in {None, Some(TokenLifetime)} }

AuthOk(token) == [status |-> "ok", token |-> token, error |-> NoError]
AuthErr(e) == [status |-> "err", token |-> "", error |-> e]

\* build_auth_url(code_challenge, state): the query parameters that vary
build_auth_url(code_challenge, st) ==
    [response_type |-> "code", code_challenge |-> code_challenge,
     code_challenge_method |-> "S256", state |-> st]

\* the expected_state of `wait_for_callback(Some(&state))`
WaitExpected(st) == Some(st)

\* the TokenExchangeRequest form of exchange_code(code, code_verifier)
TokenExchangeRequest(code, code_verifier) ==
    [code |-> code, code_verifier |-> code_verifier,
     grant_type |-> "authorization_code"]

\* faulty variant: the code is sent with a verifier other than the attempt's
ExchangeCallOtherVerifier(auth, pk) ==
    TokenExchangeRequest(auth.code, CHOOSE v \in Verifiers : v # pk.verifier)
\* `self.exchange_code(&auth_result.code, &pkce.verifier)`
ExchangeCall(auth, pk) == TokenExchangeRequest(auth.code, pk.verifier)

\* faulty variant: a refresh response without a refresh token loses the old one
PersistedRefreshTokenLost(tr, refresh_token) == tr.refresh_token
\* `token_response.refresh_token.or_else(|| Some(refresh_token.to_string()))`
PersistedRefreshToken(tr, refresh_token) ==
    IF IsSome(tr.refresh_token) THEN tr.refresh_token ELSE Some(refresh_token)

\* authorize() up to wait_for_callback's bind: the browser is opened and the
\* listener is bound, unless the port is taken
StartAuthorize(bound) ==
    /\ \E verifier \in Verifiers, st \in States :
        /\ pkce' = PkcePair_new(verifier)
        /\ state' = st
        /\ authUrl' = Some(build_auth_url(PkcePair_new(verifier).challenge, st))
        /\ waitArg' = <<WaitExpected(st)>>
    /\ browserOpens' = browserOpens + 1
    /\ IF bound
       THEN /\ listenerBinds' = listenerBinds + 1
            /\ apc' = "awaiting_callback"
            /\ authResult' = authResult
       ELSE /\ listenerBinds' = listenerBinds
            /\ apc' = "done"
            /\ authResult' = AuthErr(ErrorOf("OAuth", <<"Failed to start callback server">>))

\* faulty variant: the result of save_credentials is dropped (`let _ = ...`)
SaveAndReturnUnchecked(creds, outcome) ==
    /\ credFile' = save_credentials(credFile, creds, outcome)
    /\ fileWrites' = IF outcome = "write_failed" THEN fileWrites ELSE fileWrites + 1
    /\ apc' = "done"
    /\ authResult' = AuthOk(creds.access_token)
\* save_credentials(&creds)?; Ok(creds.access_token)
SaveAndReturn(creds, outcome) ==
    /\ credFile' = save_credentials(credFile, creds, outcome)
    /\ fileWrites' = IF outcome = "write_failed" THEN fileWrites ELSE fileWrites + 1
    /\ apc' = "done"
    /\ authResult' = IF outcome = "saved" THEN AuthOk(creds.access_token)
                     ELSE AuthErr(ErrorOf("Io", <<"Permission denied">>))

\* faulty variant: the cached token is refreshed even though it has not expired
UsesCachedNever(creds, t) == FALSE
\* `if !creds.is_expired()`: the persisted token is returned as it is
UsesCached(creds, t) == ~is_expired(creds, t)

\* get_valid_token up to its first await: load the credentials, return the
\* cached token, or send a refresh request, or start the authorization flow
GetValidToken ==
    /\ apc = "idle"
    /\ LET l == load_credentials(credFile)
       IN  IF ~l.ok
           THEN /\ apc' = "done"
                /\ authResult' = AuthErr(l.err)
                /\ UNCHANGED <<loaded, refreshRequests, browserOpens, listenerBinds,
                               attemptVars>>
           ELSE IF IsSome(l.creds) /\ UsesCached(l.creds[1], now)
           THEN /\ apc' = "done"
                /\ authResult' = AuthOk(l.creds[1].access_token)
                /\ loaded' = l.creds[1]
                /\ UNCHANGED <<refreshRequests, browserOpens, listenerBinds,
                               attemptVars>>
           ELSE IF IsSome(l.creds) /\ can_refresh(l.creds[1])
           THEN /\ apc' = "refreshing"
                /\ loaded' = l.creds[1]
                /\ refreshRequests' = refreshRequests + 1
                /\ UNCHANGED <<authResult, browserOpens, listenerBinds, attemptVars>>
           ELSE /\ loaded' = IF IsSome(l.creds) THEN l.creds[1] ELSE loaded
                /\ \E bound \in BOOLEAN : StartAuthorize(bound)
                /\ UNCHANGED refreshRequests
    /\ UNCHANGED <<credFile, now, exchangeRequests, fileWrites, tokenResp,
                   auth_result, exchangeForm,
                   callbackRead, fileAtCall>>

\* refresh_token answers with new tokens: they are saved and returned
RefreshSucceeds ==
    /\ apc = "refreshing"
    /\ \E tr \in TokenResponses("at_refreshed"), outcome \in SaveOutcomes :
        LET refresh == PersistedRefreshToken(tr, loaded.refresh_token[1])
            new_creds == Credentials_new(tr.access_token, refresh, tr.expires_in, now)
        IN  /\ tokenResp' = Some(tr)
            /\ SaveAndReturn(new_creds, outcome)
    /\ UNCHANGED <<now, loaded, refreshRequests, browserOpens, listenerBinds,
                   exchangeRequests, attemptVars, auth_result, exchangeForm,
                   callbackRead, fileAtCall>>

\* faulty variant: a failed refresh is attempted again
RefreshFailsRetries ==
    /\ apc = "refreshing"
    /\ refreshRequests < 2
    /\ refreshRequests' = refreshRequests + 1
    /\ UNCHANGED <<apc, credFile, now, loaded, authResult, browserOpens, listenerBinds,
                   exchangeRequests, fileWrites, tokenResp, attemptVars, auth_result,
                   exchangeForm,
                   callbackRead, fileAtCall>>
\* refresh_token fails: get_valid_token falls through to authorize
RefreshFails ==
    /\ apc = "refreshing"
    /\ \E bound \in BOOLEAN : StartAuthorize(bound)
    /\ UNCHANGED <<credFile, now, loaded, refreshRequests, exchangeRequests, fileWrites,
                   tokenResp, auth_result, exchangeForm,
                   callbackRead, fileAtCall>>

\* wait_for_callback(Some(&state)) returns: an error ends get_valid_token (`?`),
\* a code is exchanged together with pkce.verifier
CallbackReturns ==
    /\ apc = "awaiting_callback"
    /\ \E met \in CallbackEvents :
        LET r == CallbackOutcome(met, waitArg[1])
        IN  /\ callbackRead' = CallbackSeen(met)
            /\ IF r.status = "ok"
               THEN /\ apc' = "exchanging"
                    /\ auth_result' = Some(r.auth)
                    /\ exchangeForm' = Some(ExchangeCall(r.auth, pkce))
                    /\ exchangeRequests' = exchangeRequests + 1
                    /\ authResult' = authResult
               ELSE /\ apc' = "done"
                    /\ authResult' = AuthErr(r.error)
                    /\ UNCHANGED <<auth_result, exchangeForm, exchangeRequests>>
    /\ UNCHANGED <<credFile, now, loaded, refreshRequests, browserOpens,
                   listenerBinds, fileWrites, tokenResp, attemptVars, fileAtCall>>

\* exchange_code answers with tokens: they are saved and returned
ExchangeSucceeds ==
    /\ apc = "exchanging"
    /\ \E tr \in TokenResponses("at_new"), outcome \in SaveOutcomes :
        /\ tokenResp' = Some(tr)
        /\ SaveAndReturn(Credentials_new(tr.access_token, tr.refresh_token,
                                         tr.expires_in, now), outcome)
    /\ UNCHANGED <<now, loaded, refreshRequests, browserOpens, listenerBinds,
                   exchangeRequests, attemptVars, auth_result, exchangeForm,
                   callbackRead, fileAtCall>>

\* faulty variant: a failed exchange removes the stored credentials
ExchangeFailsClearsFile ==
    /\ apc = "exchanging"
    /\ apc' = "done"
    /\ authResult' = AuthErr(ErrorOf("OAuth", <<"Token exchange failed: ">>))
    /\ credFile' = AbsentFile
    /\ UNCHANGED <<now, loaded, refreshRequests, browserOpens,
                   listenerBinds, exchangeRequests, fileWrites, tokenResp,
                   attemptVars, auth_result, exchangeForm, callbackRead, fileAtCall>>
\* exchange_code fails: `?` returns the error
ExchangeFails ==
    /\ apc = "exchanging"
    /\ apc' = "done"
    /\ authResult' = AuthErr(ErrorOf("OAuth", <<"Token exchange failed: ">>))
    /\ UNCHANGED <<credFile, now, loaded, refreshRequests, browserOpens,
                   listenerBinds, exchangeRequests, fileWrites, tokenResp,
                   attemptVars, auth_result, exchangeForm,
                   callbackRead, fileAtCall>>

\* time passes while get_valid_token waits
Tick ==
    /\ apc \in {"refreshing", "awaiting_callback", "exchanging"}
    /\ now < MaxNow + 1
    /\ now' = now + 1
    /\ UNCHANGED <<apc, credFile, loaded, authResult, refreshRequests, browserOpens,
                   listenerBinds, exchangeRequests, fileWrites, tokenResp,
                   attemptVars, auth_result, exchangeForm,
                   callbackRead, fileAtCall>>

\* the credential files a process may find: none, an unreadable one, or
\* Credentials written by an earlier save_credentials
PersistedFiles ==
    {AbsentFile, [state |-> "corrupt", creds |-> NoCredentials, mode |-> "0600"]}
    \cup { [state |-> "present",
            creds |-> [access_token |-> "at_old", refresh_token |-> r, expires_at |-> e],
            mode |-> "0600"] :
             r \in {None, Some("rt_old")},
             e \in {None} \cup { Some(t) : t \in 0..MaxExpiry } }

AuthInit ==
    /\ LoopIdle
    /\ BmIdle
    /\ CbIdle
    /\ ProjIdle
    /\ RetryIdle
    /\ FrontIdle
    /\ LateIdle
    /\ NoAttempt
    /\ apc = "idle"
    /\ credFile \in PersistedFiles
    /\ fileAtCall = credFile
    /\ callbackRead = NoCallback
    /\ now \in 0..MaxNow
    /\ loaded = NoCredentials
    /\ authResult = NoAuthResult
    /\ refreshRequests = 0
    /\ browserOpens = 0
    /\ listenerBinds = 0
    /\ exchangeRequests = 0
    /\ fileWrites = 0

AuthNext ==
    \/ GetValidToken /\ UNCHANGED <<loopVars, bmVars, cbVars, projVars, retryVars, frontVars, lateVars>>
    \/ RefreshSucceeds /\ UNCHANGED <<loopVars, bmVars, cbVars, projVars, retryVars, frontVars, lateVars>>
    \/ RefreshFails /\ UNCHANGED <<loopVars, bmVars, cbVars, projVars, retryVars, frontVars, lateVars>>
    \/ CallbackReturns /\ UNCHANGED <<loopVars, bmVars, cbVars, projVars, retryVars, frontVars, lateVars>>
    \/ ExchangeSucceeds /\ UNCHANGED <<loopVars, bmVars, cbVars, projVars, retryVars, frontVars, lateVars>>
    \/ ExchangeFails /\ UNCHANGED <<loopVars, bmVars, cbVars, projVars, retryVars, frontVars, lateVars>>
    \/ Tick /\ UNCHANGED <<loopVars, bmVars, cbVars, projVars, retryVars, frontVars, lateVars>>

AuthSpec == AuthInit /\ [][AuthNext]_vars

----------------------------------------------------------------------------
(* auth/callback_server.rs: wait_for_callback, one call *)

\* faulty variant: the success page is sent whatever the parse gave
StatusLineAlwaysOk(res) == "200 OK"
\* `match &result { Ok(_) => ("200 OK", ..), Err(_) => ("400 Bad Request", ..) }`
StatusLine(res) == IF res.status = "ok" THEN "200 OK" ELSE "400 Bad Request"

CbInit ==
    /\ LoopIdle
    /\ BmIdle
    /\ AuthIdle
    /\ ProjIdle
    /\ RetryIdle
    /\ FrontIdle
    /\ LateIdle
    /\ cbpc = "idle"
    /\ expected_state \in {None} \cup { Some(st) : st \in States }
    /\ request = NoRequest
    /\ accepts = 0
    /\ reads = 0
    /\ httpResponse = ""
    /\ parsed = NoCbResult
    /\ cbResult = NoCbResult

\* TcpListener::bind(&addr).await, `?` on failure
CbBind ==
    /\ cbpc = "idle"
    /\ \E bound \in BOOLEAN :
        IF bound
        THEN cbpc' = "listening" /\ cbResult' = cbResult
        ELSE /\ cbpc' = "done"
             /\ cbResult' = CbErr(<<"Failed to start callback server on ",
                                     "127.0.0.1:8085", ": ">>)
    /\ UNCHANGED <<expected_state, request, accepts, reads, httpResponse, parsed>>

\* listener.accept().await, `?` on failure
CbAccept ==
    /\ cbpc = "listening"
    /\ \E accepted \in BOOLEAN :
        IF accepted
        THEN cbpc' = "connected" /\ accepts' = accepts + 1 /\ cbResult' = cbResult
        ELSE /\ cbpc' = "done"
             /\ accepts' = accepts
             /\ cbResult' = CbErr(<<"Failed to accept connection: ">>)
    /\ UNCHANGED <<expected_state, request, reads, httpResponse, parsed>>

\* socket.read(&mut buffer).await, `?` on failure; then parse_callback_request
CbRead ==
    /\ cbpc = "connected"
    /\ reads' = reads + 1
    /\ \/ /\ cbpc' = "done"
          /\ cbResult' = CbErr(<<"Failed to read request: ">>)
          /\ UNCHANGED <<request, parsed>>
       \/ \E req \in CallbackRequests :
            /\ request' = req
            /\ parsed' = parse_callback_request(req, expected_state)
            /\ cbpc' = "parsed"
            /\ cbResult' = cbResult
    /\ UNCHANGED <<expected_state, accepts, httpResponse>>

\* socket.write_all(response) and socket.shutdown(), their errors discarded;
\* then `result` is returned
CbRespond ==
    /\ cbpc = "parsed"
    /\ httpResponse' = StatusLine(parsed)
    /\ cbResult' = parsed
    /\ cbpc' = "done"
    /\ UNCHANGED <<expected_state, request, accepts, reads, parsed>>

CbNext ==
    \/ CbBind /\ UNCHANGED <<loopVars, bmVars, authVars, projVars, retryVars, frontVars, lateVars>>
    \/ CbAccept /\ UNCHANGED <<loopVars, bmVars, authVars, projVars, retryVars, frontVars, lateVars>>
    \/ CbRead /\ UNCHANGED <<loopVars, bmVars, authVars, projVars, retryVars, frontVars, lateVars>>
    \/ CbRespond /\ UNCHANGED <<loopVars, bmVars, authVars, projVars, retryVars, frontVars, lateVars>>

CbSpec == CbInit /\ [][CbNext]_vars

----------------------------------------------------------------------------
(* agent/gemini_oauth.rs: get_or_fetch_project_id, onboard_user, poll_operation *)

\* `for _ in 0..24`
POLL_ATTEMPTS == 24
\* Duration::from_secs(5), in seconds
POLL_INTERVAL == 5

ProjOk(project) == [status |-> "ok", project |-> project, error |-> NoError]
ProjErr(e) == [status |-> "err", project |-> "", error |-> e]

\* a reqwest error returned through `?` (send, text or json)
HttpError == ErrorOf("Http", <<"error sending request">>)

\* `if let Ok(project) = std::env::var(name) { if !project.is_empty() {..} }`
NonEmpty(value) == IsSome(value) /\ value[1] # ""

\* faulty variant: an empty GOOGLE_CLOUD_PROJECT counts as set
EnvOverrideKeepsEmpty(e) ==
    IF IsSome(e.GOOGLE_CLOUD_PROJECT) THEN e.GOOGLE_CLOUD_PROJECT
    ELSE IF NonEmpty(e.GOOGLE_CLOUD_PROJECT_ID) THEN e.GOOGLE_CLOUD_PROJECT_ID
    ELSE None
\* the two environment checks of get_or_fetch_project_id, in their order
EnvOverride(e) ==
    IF NonEmpty(e.GOOGLE_CLOUD_PROJECT) THEN e.GOOGLE_CLOUD_PROJECT
    ELSE IF NonEmpty(e.GOOGLE_CLOUD_PROJECT_ID) THEN e.GOOGLE_CLOUD_PROJECT_ID
    ELSE None

\* faulty variant: one more pass of the polling loop
PollAgainOnceMore(n) == n < POLL_ATTEMPTS + 1
\* `for _ in 0..24`: another pass after n passes
PollAgain(n) == n < POLL_ATTEMPTS

\* the values the client's project_id field and the environment may hold;
\* from_cli and new both leave project_id None
ProjInit ==
    /\ LoopIdle
    /\ BmIdle
    /\ AuthIdle
    /\ CbIdle
    /\ RetryIdle
    /\ FrontIdle
    /\ LateIdle
    /\ ppc = "idle"
    /\ project_id \in {None, Some("cached-project")}
    /\ env \in [GOOGLE_CLOUD_PROJECT : {None, Some(""), Some("project-a")},
                 GOOGLE_CLOUD_PROJECT_ID : {None, Some(""), Some("project-b")}]
    /\ loadRequests = 0
    /\ onboardRequests = 0
    /\ pollRequests = 0
    /\ pollWaits = 0
    /\ waited = 0
    /\ lastPoll = "none"
    /\ projResult = NoProjResult
    /\ lastLoad = "none"
    /\ lastOnboard = NoOnboardReply

ProjReturn(res) ==
    /\ ppc' = "done"
    /\ projResult' = res

\* get_or_fetch_project_id up to its first await: the cached value, the
\* environment, or the loadCodeAssist request
ResolveProject ==
    /\ ppc = "idle"
    /\ IF IsSome(project_id)
       THEN ProjReturn(ProjOk(project_id[1])) /\ UNCHANGED loadRequests
       ELSE IF IsSome(EnvOverride(env))
       THEN ProjReturn(ProjOk(EnvOverride(env)[1])) /\ UNCHANGED loadRequests
       ELSE /\ loadRequests' = loadRequests + 1
            /\ ppc' = "loading"
            /\ UNCHANGED projResult
    /\ UNCHANGED <<project_id, env, onboardRequests, pollRequests, pollWaits, waited,
                   lastPoll, lastLoad, lastOnboard>>

\* the loadCodeAssist answers: a transport or body error, a non-success
\* status, a success with currentTier and a project, or a success without
LoadReplies == {"error", "non_success", "provisioned", "not_provisioned"}

\* the loadCodeAssist answer: a transport or body error, a provisioned
\* project, or anything else, which sends the onboardUser request
LoadAnswered ==
    /\ ppc = "loading"
    /\ \E answer \in LoadReplies :
        /\ lastLoad' = answer
        /\ CASE answer = "error" ->
                ProjReturn(ProjErr(HttpError)) /\ UNCHANGED onboardRequests
             [] answer = "provisioned" ->
                ProjReturn(ProjOk("loaded-project")) /\ UNCHANGED onboardRequests
             [] OTHER ->
                /\ onboardRequests' = onboardRequests + 1
                /\ ppc' = "onboarding"
                /\ UNCHANGED projResult
    /\ UNCHANGED <<project_id, env, loadRequests, pollRequests, pollWaits, waited,
                   lastPoll, lastOnboard>>

\* the onboardUser answers: a transport or body error, a non-success status,
\* or a body: with or without a `name` string, a true `done`, and a
\* response.cloudaicompanionProject.id
OnboardReplies ==
    { [kind |-> k, name |-> FALSE, done |-> FALSE, project |-> FALSE] :
        k \in {"error", "non_success"} }
    \cup [kind : {"data"}, name : BOOLEAN, done : BOOLEAN, project : BOOLEAN]

\* faulty variant: every named operation is polled, done or not
IsPendingOperationAnyName(data) == data.name
\* `if let Some(name) = data.get("name")..` and `!data.get("done")..unwrap_or(false)`
IsPendingOperation(data) == data.name /\ ~data.done

\* the onboardUser answer: a transport or body error, a non-success status, a
\* long-running operation that is not done, a response with a project, or one
\* without
OnboardAnswered ==
    /\ ppc = "onboarding"
    /\ \E answer \in OnboardReplies :
        /\ lastOnboard' = answer
        /\ CASE answer.kind = "error" -> ProjReturn(ProjErr(HttpError))
             [] answer.kind = "non_success" ->
                ProjReturn(ProjErr(ErrorOf("Auth", <<"Failed to onboard: ">>)))
             [] IsPendingOperation(answer) -> ppc' = "sleeping" /\ UNCHANGED projResult
             [] ~IsPendingOperation(answer) /\ answer.project ->
                ProjReturn(ProjOk("onboarded-project"))
             [] OTHER ->
                ProjReturn(ProjErr(ErrorOf("Auth",
                    <<"Could not provision project. Set GOOGLE_CLOUD_PROJECT or GOOGLE_CLOUD_PROJECT_ID.">>)))
    /\ UNCHANGED <<project_id, env, loadRequests, onboardRequests, pollRequests,
                   pollWaits, waited, lastPoll, lastLoad>>

\* one pass of poll_operation's loop up to the request: sleep, then send
PollSleep ==
    /\ ppc = "sleeping"
    /\ PollAgain(pollWaits)
    /\ pollWaits' = pollWaits + 1
    /\ waited' = waited + POLL_INTERVAL
    /\ pollRequests' = pollRequests + 1
    /\ ppc' = "polling"
    /\ UNCHANGED <<project_id, env, loadRequests, onboardRequests, lastPoll, projResult,
                   lastLoad, lastOnboard>>

\* the loop is exhausted
PollTimeout ==
    /\ ppc = "sleeping"
    /\ ~PollAgain(pollWaits)
    /\ ProjReturn(ProjErr(ErrorOf("Auth", <<"Operation polling timeout">>)))
    /\ UNCHANGED <<project_id, env, loadRequests, onboardRequests, pollRequests,
                   pollWaits, waited, lastPoll, lastLoad, lastOnboard>>

\* the answer to a poll: a transport or body error ends poll_operation, a done
\* operation with a project id returns it, anything else goes round the loop
PollAnswered ==
    /\ ppc = "polling"
    /\ \E answer \in {"error", "non_success", "pending", "done_no_project", "done"} :
        /\ lastPoll' = answer
        /\ CASE answer = "error" -> ProjReturn(ProjErr(HttpError))
             [] answer = "done" -> ProjReturn(ProjOk("polled-project"))
             [] OTHER -> ppc' = "sleeping" /\ UNCHANGED projResult
    /\ UNCHANGED <<project_id, env, loadRequests, onboardRequests, pollRequests,
                   pollWaits, waited, lastLoad, lastOnboard>>

ProjNext ==
    \/ ResolveProject /\ UNCHANGED <<loopVars, bmVars, authVars, cbVars, retryVars, frontVars, lateVars>>
    \/ LoadAnswered /\ UNCHANGED <<loopVars, bmVars, authVars, cbVars, retryVars, frontVars, lateVars>>
    \/ OnboardAnswered /\ UNCHANGED <<loopVars, bmVars, authVars, cbVars, retryVars, frontVars, lateVars>>
    \/ PollSleep /\ UNCHANGED <<loopVars, bmVars, authVars, cbVars, retryVars, frontVars, lateVars>>
    \/ PollTimeout /\ UNCHANGED <<loopVars, bmVars, authVars, cbVars, retryVars, frontVars, lateVars>>
    \/ PollAnswered /\ UNCHANGED <<loopVars, bmVars, authVars, cbVars, retryVars, frontVars, lateVars>>

ProjSpec == ProjInit /\ [][ProjNext]_vars

\* the runtime keeps driving the future, and every request is answered
ProjFairSpec == ProjSpec /\ WF_vars(ProjNext)

----------------------------------------------------------------------------
(* agent/gemini_oauth.rs: GeminiOAuthClient::chat *)

\* `let max_retries = 5`
MAX_RETRIES == 5
\* Duration::from_secs(60), the cap of the backoff, in seconds
MAX_BACKOFF == 60
\* ticks of a second: Durations are counted in 1/32 s, so that five
\* multiplications by 1.5 stay whole
TicksPerSecond == 32
\* the jitters `rand::random::<f64>() * 0.5 + 0.5` may give, in quarters:
\* 0.5, 0.75 and (by rounding) 1.0
JitterQuarters == {2, 3, 4}

CallOk == [status |-> "ok", error |-> NoError]
CallErr(e) == [status |-> "err", error |-> e]

\* the answers to a generateContent request: no answer (a transport error), a
\* success with a body that holds a response, lacks the `response` field or
\* does not parse, or a non-success status with a body that holds
\* RESOURCE_EXHAUSTED or not
Replies ==
    { [status |-> 0, body |-> "transport_error"] }
    \cup { [status |-> 200, body |-> b] :
              b \in {"response", "missing_response", "unparsable"} }
    \cup { [status |-> st, body |-> b] :
              st \in {401, 429, 500}, b \in {"RESOURCE_EXHAUSTED", "other"} }

\* Display of the StatusCode
StatusText(st) ==
    CASE st = 401 -> "401 Unauthorized"
      [] st = 429 -> "429 Too Many Requests"
      [] OTHER -> "500 Internal Server Error"

\* `status.as_u16() == 429 || error_text.contains("RESOURCE_EXHAUSTED")`
RateLimited(reply) == reply.status = 429 \/ reply.body = "RESOURCE_EXHAUSTED"

\* faulty variant: one more retry
CanRetryOnceMore(n) == n < MAX_RETRIES + 1
\* `if retry_count < max_retries`
CanRetry(n) == n < MAX_RETRIES

\* `backoff.mul_f64(2.0 * jitter).min(Duration::from_secs(60))`
NextBackoff(b, quarters) ==
    LET next_backoff == (b * 2 * quarters) \div 4
    IN  IF next_backoff < MAX_BACKOFF * TicksPerSecond THEN next_backoff
        ELSE MAX_BACKOFF * TicksPerSecond

RetryInit ==
    /\ LoopIdle
    /\ BmIdle
    /\ AuthIdle
    /\ CbIdle
    /\ ProjIdle
    /\ RetryIdle
    /\ FrontIdle
    /\ LateIdle

\* chat up to its first generateContent request: get_valid_token and
\* get_or_fetch_project_id (`?` on their errors), then the first send
ChatStart ==
    /\ rpc = "idle"
    /\ tokenCalls' = tokenCalls + 1
    /\ \E outcome \in {"token_error", "project_error", "ready"} :
        CASE outcome = "token_error" ->
                /\ rpc' = "done"
                /\ chatResult' = CallErr(ErrorOf("OAuth", <<"Authorization failed: ">>))
                /\ UNCHANGED <<retry_count, backoff, requests>>
          [] outcome = "project_error" ->
                /\ rpc' = "done"
                /\ chatResult' = CallErr(ErrorOf("Auth", <<"Failed to onboard: ">>))
                /\ UNCHANGED <<retry_count, backoff, requests>>
          [] OTHER ->
                /\ rpc' = "sending"
                /\ retry_count' = 0
                /\ backoff' = 1 * TicksPerSecond
                /\ requests' = requests + 1
                /\ UNCHANGED chatResult
    /\ UNCHANGED <<lastResponse, sleeps>>

\* one pass of the loop from the answer on: return on success, start the
\* sleep of a retry, or return the error
ChatAnswered ==
    /\ rpc = "sending"
    /\ \E reply \in Replies :
        /\ lastResponse' = reply
        /\ IF reply.status = 0
           THEN /\ rpc' = "done"
                /\ chatResult' = CallErr(HttpError)
                /\ UNCHANGED retry_count
           ELSE IF reply.status = 200
           THEN /\ rpc' = "done"
                /\ chatResult' =
                     CASE reply.body = "response" -> CallOk
                       [] reply.body = "missing_response" ->
                            CallErr(ErrorOf("Llm",
                                <<"Missing 'response' field in Code Assist response">>))
                       [] OTHER -> CallErr(ErrorOf("Llm", <<"Failed to parse response: ">>))
                /\ UNCHANGED retry_count
           ELSE IF RateLimited(reply) /\ CanRetry(retry_count)
           THEN /\ retry_count' = retry_count + 1
                /\ rpc' = "sleeping"
                /\ UNCHANGED chatResult
           ELSE /\ rpc' = "done"
                /\ chatResult' =
                     IF reply.status = 401
                     THEN CallErr(ErrorOf("Auth", <<"Authentication failed: ", reply.body>>))
                     ELSE CallErr(ErrorOf("Llm", <<"Code Assist API error (",
                                          StatusText(reply.status), "): ", reply.body>>))
                /\ UNCHANGED retry_count
    /\ UNCHANGED <<backoff, requests, sleeps, tokenCalls>>

\* tokio::time::sleep(backoff) is over: the next backoff is drawn and the
\* request is sent again
ChatRetry ==
    /\ rpc = "sleeping"
    /\ sleeps' = Append(sleeps, backoff)
    /\ \E quarters \in JitterQuarters : backoff' = NextBackoff(backoff, quarters)
    /\ requests' = requests + 1
    /\ rpc' = "sending"
    /\ UNCHANGED <<retry_count, lastResponse, tokenCalls, chatResult>>

RetryNext ==
    \/ ChatStart /\ UNCHANGED <<loopVars, bmVars, authVars, cbVars, projVars, frontVars, lateVars>>
    \/ ChatAnswered /\ UNCHANGED <<loopVars, bmVars, authVars, cbVars, projVars, frontVars, lateVars>>
    \/ ChatRetry /\ UNCHANGED <<loopVars, bmVars, authVars, cbVars, projVars, frontVars, lateVars>>

RetrySpec == RetryInit /\ [][RetryNext]_vars

----------------------------------------------------------------------------
(* Properties of AgentLoop::run, under Spec *)

Returned == pc = "returned"

\* the i-th backend outcome is a response that carries at least one tool call
CarriesToolCalls(i) == respLog[i].ok /\ respLog[i].resp.tool_calls # << >>
\* the i-th backend outcome is a response without tool calls
TextOnly(i) == respLog[i].ok /\ respLog[i].resp.tool_calls = << >>

\* C1: one run makes at most max_iterations backend calls; it fails with
\* MaxIterations exactly when max_iterations consecutive responses each carried
\* a tool call (after exactly max_iterations calls); with max_iterations = 0 it
\* fails with MaxIterations without any backend call.
C1_MaxIterations ==
    /\ Len(chatLog) <= max_iterations
    /\ Len(respLog) = Len(chatLog)
    /\ (Returned /\ result = RunErr(MaxIterationsError))
         <=> ( /\ Returned
               /\ Len(chatLog) = max_iterations
               /\ \A i \in 1..Len(respLog) : CarriesToolCalls(i) )
    /\ (max_iterations = 0 /\ pc # "idle")
         => (Returned /\ result = RunErr(MaxIterationsError) /\ chatLog = << >>)

\* C1 witness: max_iterations = 3, three responses with tool calls, MaxIterations
C1_Witness ==
    /\ Returned
    /\ max_iterations = 3
    /\ Len(chatLog) = 3
    /\ \A i \in 1..3 : CarriesToolCalls(i)
    /\ result = RunErr(MaxIterationsError)

\* C2: run returns success only with the text of the first response without
\* tool calls; after that response there is no further backend call and no tool
\* execution; a response with tool calls is never the final answer.
C2_FinalAnswer ==
    /\ result.status = "ok" =>
         /\ Returned
         /\ respLog # << >>
         /\ TextOnly(Len(respLog))
         /\ result.content = unwrap_or_default(respLog[Len(respLog)].resp.content)
    /\ \A i \in 1..Len(respLog) :
         TextOnly(i) =>
           /\ i = Len(respLog)
           /\ Len(chatLog) = i
           /\ Returned
           /\ result.status = "ok"
           /\ \A n \in 1..Len(execLog) : execLog[n].iteration < i - 1

\* C2 witness: a response with text and tool calls was not final, a later text was
C2_Witness ==
    /\ Returned
    /\ result = RunOk(<<"Hello, human!">>)
    /\ Len(respLog) = 2
    /\ IsSome(respLog[1].resp.content)
    /\ CarriesToolCalls(1)
    /\ execLog # << >>

RECURSIVE RequestedUpTo(_)
\* the tool calls requested by the first n backend outcomes, in order, each
\* with the iteration and the position it was requested at
RequestedUpTo(n) ==
    IF n = 0 THEN << >>
    ELSE RequestedUpTo(n - 1) \o
         [j \in 1..Len(respLog[n].resp.tool_calls) |->
            [iteration |-> n - 1, index |-> j,
             id |-> respLog[n].resp.tool_calls[j].id,
             name |-> respLog[n].resp.tool_calls[j].name]]

\* the executions made, as (iteration, index, id, name)
Executed ==
    [n \in 1..Len(execLog) |->
        [iteration |-> execLog[n].iteration, index |-> execLog[n].index,
         id |-> execLog[n].id, name |-> execLog[n].name]]

IsPrefix(a, b) == Len(a) <= Len(b) /\ SubSeq(b, 1, Len(a)) = a

\* C3: every requested tool call is executed exactly once through the
\* registry, one at a time in the order listed, and all calls of a response
\* finish before the next backend call (or the return); one tool call and then
\* text gives exactly one execution and exactly two backend calls.
C3_ToolExecution ==
    /\ IsPrefix(Executed, RequestedUpTo(Len(respLog)))
    /\ pc # "tool" => Executed = RequestedUpTo(Len(respLog))
    /\ pc = "tool" =>
         Len(Executed) = Len(RequestedUpTo(Len(respLog) - 1)) + tcIdx - 1
    /\ (/\ Returned
        /\ Len(respLog) = 2
        /\ CarriesToolCalls(1)
        /\ Len(respLog[1].resp.tool_calls) = 1
        /\ TextOnly(2))
         => (Len(execLog) = 1 /\ Len(chatLog) = 2 /\ result.status = "ok")

\* C3 witness: two calls in one response, both executed, then text
C3_Witness ==
    /\ Returned
    /\ Len(respLog) = 2
    /\ Len(respLog[1].resp.tool_calls) = 2
    /\ TextOnly(2)
    /\ Len(execLog) = 2
    /\ execLog[1].id # execLog[2].id

\* C4: the sequence given to the backend is append-only; after a response with
\* k tool calls it grows by one assistant message carrying the k requests and
\* then k tool messages, the j-th carrying the id of the j-th request; every
\* tool message carries a tool_call_id.
C4_MessageSequence ==
    /\ \A i \in 1..Len(chatLog) :
         LET a == chatLog[i]
             b == IF i < Len(chatLog) THEN chatLog[i + 1] ELSE messages
             calls == respLog[i].resp.tool_calls
             k == Len(calls)
         IN  /\ IsPrefix(a, b)
             /\ (i < Len(chatLog) \/ (CarriesToolCalls(i) /\ pc # "tool")) =>
                  /\ Len(b) = Len(a) + 1 + k
                  /\ b[Len(a) + 1].role = "assistant"
                  /\ b[Len(a) + 1].tool_calls = Some(calls)
                  /\ b[Len(a) + 1].content = unwrap_or_default(respLog[i].resp.content)
                  /\ \A j \in 1..k :
                       /\ b[Len(a) + 1 + j].role = "tool"
                       /\ b[Len(a) + 1 + j].tool_call_id = Some(calls[j].id)
    /\ \A n \in 1..Len(messages) :
         messages[n].role = "tool" => IsSome(messages[n].tool_call_id)

\* C4 witness: a second backend call after a response with two tool calls
C4_Witness ==
    /\ Len(chatLog) >= 2
    /\ Len(respLog[1].resp.tool_calls) = 2
    /\ Len(chatLog[2]) = Len(chatLog[1]) + 3

\* the tool-result messages of the sequence, in order
ToolMessages == SelectSeq(messages, LAMBDA m : m.role = "tool")

\* C5: a failed tool execution (unknown name, or the tool's own error) gives a
\* tool-result message "Error: " + the error's description; the loop goes on,
\* and no tool failure makes run return an error.
C5_ToolFailure ==
    /\ Len(ToolMessages) = Len(execLog)
    /\ \A n \in 1..Len(execLog) :
         /\ execLog[n].name \notin tool_runner =>
              (~execLog[n].ran /\ ~execLog[n].res.ok /\ execLog[n].res.err.kind = "Tool")
         /\ ~execLog[n].res.ok =>
              ToolMessages[n].content = <<"Error: ">> \o Display(execLog[n].res.err)
         /\ execLog[n].res.ok => ToolMessages[n].content = execLog[n].res.val
    /\ result.status = "err" =>
         \/ result.error = MaxIterationsError
         \/ (respLog # << >> /\ ~respLog[Len(respLog)].ok
               /\ result.error = respLog[Len(respLog)].err)
    /\ pc # "tool" => Len(execLog) = Len(RequestedUpTo(Len(respLog)))

\* C5 witness: an unknown tool and a failing tool, and the turn still succeeds
C5_Witness ==
    /\ Returned
    /\ result.status = "ok"
    /\ \E n \in 1..Len(execLog) : ~execLog[n].ran
    /\ \E n \in 1..Len(execLog) : execLog[n].ran /\ ~execLog[n].res.ok
    /\ Len(chatLog) = 3

\* C6: a failed backend call makes run return that error at once: no further
\* backend call, no further tool execution, no retry.
C6_BackendFailure ==
    \A i \in 1..Len(respLog) :
        ~respLog[i].ok =>
          /\ i = Len(respLog)
          /\ Len(chatLog) = i
          /\ Returned
          /\ result = RunErr(respLog[i].err)
          /\ \A n \in 1..Len(execLog) : execLog[n].iteration < i - 1

\* C6 witness: the second backend call fails with an authentication error
C6_Witness ==
    /\ Returned
    /\ Len(respLog) = 2
    /\ ~respLog[2].ok
    /\ result.error.kind = "Auth"
    /\ execLog # << >>

\* C7: the first backend call receives [system] + windowed prior history +
\* [user(new message)], and the prior history is part of every request.
C7_HistoryInRequest ==
    \A i \in 1..Len(chatLog) :
        /\ IsPrefix(build_messages(history, message.content), chatLog[i])
        /\ i = 1 => chatLog[i] = build_messages(history, message.content)

RECURSIVE SeqTokens(_)
\* the estimated tokens of a message sequence
SeqTokens(ms) ==
    IF ms = << >> THEN 0 ELSE estimate_tokens(Head(ms).content) + SeqTokens(Tail(ms))

\* the history part of a request: what lies between the system message and the
\* first message that follows the system prompt's history window
HistoryPart(req) == SubSeq(req, 2, Len(req) - 1)

\* C8: every request sent to the backend is within the token budget: the
\* history part and the whole sequence do not exceed the TokenBudget limits.
C8_WithinBudget ==
    \A i \in 1..Len(chatLog) :
        /\ SeqTokens(chatLog[i]) <= TOTAL_BUDGET
        /\ SeqTokens(HistoryPart(chatLog[1])) <= HISTORY_BUDGET

----------------------------------------------------------------------------
(* Properties of Context::build_messages, under BmSpec *)

Min(a, b) == IF a <= b THEN a ELSE b

\* C9: build_messages(history, current) is [system], then the last
\* min(len(history), 40) messages of history in order, then user(current);
\* a history of at most 40 messages is kept whole, a longer one loses only its
\* oldest messages (100 messages give length 42, the last kept is message 99).
C9_Windowing ==
    bmDone =>
      LET n == Len(bmHistory)
          k == Min(n, 40)
      IN  /\ Len(bmOut) = k + 2
          /\ bmOut[1] = system(build_system_prompt)
          /\ \A j \in 1..k : bmOut[1 + j] = bmHistory[n - k + j]
          /\ bmOut[k + 2] = user(bmCurrent)
          /\ n <= 40 => SubSeq(bmOut, 2, n + 1) = bmHistory
          /\ n = 100 => ( /\ Len(bmOut) = 42
                          /\ bmOut[41].content = <<"Message ", "9", "9">> )

\* C9 witness: the history of 100 messages was windowed to 42
C9_Witness ==
    /\ bmDone
    /\ Len(bmHistory) = 100
    /\ Len(bmOut) = 42
    /\ bmOut[2].content = <<"Message ", "6", "0">>

----------------------------------------------------------------------------
(* Properties of get_valid_token, under AuthSpec *)

\* the persisted Credentials are not expired at time t: no expiry is known,
\* or the expiry is more than 5 minutes ahead
NotExpiredAt(creds, t) ==
    creds.expires_at = None \/ t + 5 < creds.expires_at[1]

\* C10: with persisted Credentials that are not expired, get_valid_token
\* returns the persisted access token and makes no refresh request, starts no
\* authorization flow (no browser, no listener), sends no exchange request and
\* does not write the credential file.
C10_CachedToken ==
    [][ (apc = "idle" /\ credFile.state = "present" /\ NotExpiredAt(credFile.creds, now))
          => /\ apc' = "done"
             /\ authResult' = AuthOk(credFile.creds.access_token)
             /\ refreshRequests' = refreshRequests
             /\ browserOpens' = browserOpens
             /\ listenerBinds' = listenerBinds
             /\ exchangeRequests' = exchangeRequests
             /\ fileWrites' = fileWrites
             /\ credFile' = credFile ]_vars

\* C10 witness: a token with an expiry safely ahead was returned from the file
C10_Witness ==
    /\ apc = "done"
    /\ authResult = AuthOk("at_old")
    /\ credFile.state = "present"
    /\ IsSome(credFile.creds.expires_at)
    /\ NotExpiredAt(credFile.creds, now)
    /\ refreshRequests = 0
    /\ browserOpens = 0
    /\ fileWrites = 0


\* the persisted Credentials are expired at time t and hold a refresh token
ExpiredRefreshable(file, t) ==
    /\ file.state = "present"
    /\ file.creds.expires_at # None
    /\ t + 5 >= file.creds.expires_at[1]
    /\ file.creds.refresh_token # None

\* the step in which the token endpoint answers the refresh request with tokens
RefreshAnswered == apc = "refreshing" /\ tokenResp = None /\ tokenResp' # None

\* C11: get_valid_token with expired persisted Credentials that hold a refresh
\* token sends a refresh request and starts no authorization flow; when the
\* refresh is answered with tokens, no authorization flow is started, the
\* Credentials written to the file carry the new access token and the refresh
\* token of the response if it has one, otherwise the old refresh token, and
\* a call that returns a token returns the new access token with the new
\* Credentials persisted.
C11_Refresh ==
    [][ /\ (apc = "idle" /\ ExpiredRefreshable(credFile, now))
            => /\ apc' = "refreshing"
               /\ refreshRequests' = refreshRequests + 1
               /\ browserOpens' = browserOpens
        /\ RefreshAnswered
            => /\ apc' = "done"
               /\ browserOpens' = browserOpens
               /\ listenerBinds' = listenerBinds
               /\ exchangeRequests' = exchangeRequests
               /\ authResult'.status = "ok"
                    => /\ authResult'.token = tokenResp'[1].access_token
                       /\ credFile'.state = "present"
                       /\ fileWrites' = fileWrites + 1
               /\ fileWrites' # fileWrites
                    => /\ credFile'.creds.access_token = tokenResp'[1].access_token
                       /\ credFile'.creds.refresh_token =
                            IF tokenResp'[1].refresh_token # None
                            THEN tokenResp'[1].refresh_token
                            ELSE credFile.creds.refresh_token
                       /\ credFile'.creds.refresh_token # None ]_vars

\* a refresh whose response had no refresh token returned the new access token
\* and left the old refresh token in the file
C11_Witness ==
    /\ apc = "done"
    /\ authResult = AuthOk("at_refreshed")
    /\ tokenResp # None
    /\ tokenResp[1].refresh_token = None
    /\ credFile.creds.access_token = "at_refreshed"
    /\ credFile.creds.refresh_token = Some("rt_old")
    /\ browserOpens = 0

\* the states of one get_valid_token call in their order: TokenCheck,
\* Refreshing, (Reauthorizing and) AwaitingCallback, Exchanging, Success or Failure
Rank(p) ==
    CASE p = "idle" -> 0
      [] p = "refreshing" -> 1
      [] p = "awaiting_callback" -> 2
      [] p = "exchanging" -> 3
      [] OTHER -> 4

\* C12: within one get_valid_token call the state only moves forward; at most
\* one refresh request is sent and at most one authorization flow is started;
\* a refresh that fails is followed by exactly one authorization flow; expired
\* Credentials without a refresh token start the authorization flow without a
\* refresh request; a failure of the callback or of the exchange ends the call
\* with an error and starts no further authorization flow.
C12_ForwardOnly ==
    [][ /\ Rank(apc') >= Rank(apc)
        /\ (apc' # apc) => Rank(apc') > Rank(apc)
        /\ refreshRequests' \in {refreshRequests, refreshRequests + 1}
        /\ browserOpens' \in {browserOpens, browserOpens + 1}
        /\ refreshRequests' <= 1
        /\ browserOpens' <= 1
        /\ (apc = "refreshing" /\ apc' # apc /\ tokenResp' = None)
            => /\ browserOpens = 0
               /\ browserOpens' = 1
               /\ refreshRequests' = refreshRequests
        /\ ( /\ apc = "idle"
             /\ credFile.state = "present"
             /\ credFile.creds.expires_at # None
             /\ now + 5 >= credFile.creds.expires_at[1]
             /\ credFile.creds.refresh_token = None )
            => /\ browserOpens' = 1
               /\ refreshRequests' = 0
               /\ apc' \in {"awaiting_callback", "done"}
        /\ (apc \in {"awaiting_callback", "exchanging"} /\ authResult'.status = "err")
            => /\ apc' = "done"
               /\ browserOpens' = browserOpens
               /\ refreshRequests' = refreshRequests ]_vars

\* a refresh failed, one authorization flow followed, and its exchange failed
C12_Witness ==
    /\ apc = "done"
    /\ authResult.status = "err"
    /\ refreshRequests = 1
    /\ browserOpens = 1
    /\ exchangeRequests = 1
    /\ tokenResp = None

\* C16: in one authorization attempt the code_verifier posted in the token
\* exchange is the verifier whose challenge is in the authorization URL, the
\* expected state given to wait_for_callback is the state in that URL, and the
\* code posted is the code of the callback that was validated against that
\* state; at most one exchange is made per attempt.
C16_BoundSecrets ==
    /\ authUrl # None
        => /\ waitArg = <<Some(authUrl[1].state)>>
           /\ authUrl[1].code_challenge_method = "S256"
    /\ authUrl = None => (waitArg = << >> /\ exchangeForm = None)
    /\ exchangeRequests = (IF exchangeForm = None THEN 0 ELSE 1)
    /\ exchangeForm # None
        => /\ \A v \in Verifiers :
                 (generate_code_challenge(v) = authUrl[1].code_challenge)
                    <=> (v = exchangeForm[1].code_verifier)
           /\ auth_result # None
           /\ exchangeForm[1].code = auth_result[1].code
           /\ auth_result[1].state = Some(authUrl[1].state)

\* an authorization attempt whose code was exchanged and whose tokens were saved
C16_Witness ==
    /\ apc = "done"
    /\ authResult = AuthOk("at_new")
    /\ exchangeForm # None
    /\ exchangeForm[1].code = "code_2"
    /\ authUrl[1].state = "state_2"

----------------------------------------------------------------------------
(* Properties of parse_callback_request and wait_for_callback, under CbSpec *)

\* the request that was read carries a query parameter named k
Carries(k) == \E i \in 1..Len(request.pairs) : request.pairs[i][1] = k

\* the value of the parameter named k (of its last occurrence)
ValueOf(k) ==
    LET last == CHOOSE i \in 1..Len(request.pairs) :
                    /\ request.pairs[i][1] = k
                    /\ \A j \in (i + 1)..Len(request.pairs) : request.pairs[j][1] # k
    IN  request.pairs[last][2]

\* parse_callback_request has been applied to the request that was read
Parsed == parsed.status # "none"

\* C13: with an expected state, parse_callback_request succeeds only if the
\* query carries no error parameter, a state parameter equal to the expected
\* state and a code parameter (and, for a well-formed request line, whenever it
\* does), and it returns exactly that code; a different state, a missing state
\* or a missing code is a failure.  With no expected state the state parameter
\* is not checked: a well-formed request that carries a code and no error
\* parameter succeeds with that code, whatever state parameter it carries.
C13_ParseCallback ==
    Parsed =>
        /\ expected_state # None =>
            /\ parsed.status = "ok"
                <=> /\ request.line = "ok"
                    /\ ~Carries("error")
                    /\ Carries("state")
                    /\ ValueOf("state") = expected_state[1]
                    /\ Carries("code")
            /\ ( \/ ~Carries("state")
                 \/ ValueOf("state") # expected_state[1]
                 \/ ~Carries("code") ) => parsed.status = "err"
        /\ expected_state = None =>
            /\ parsed.status = "ok"
                <=> (request.line = "ok" /\ ~Carries("error") /\ Carries("code"))
        /\ parsed.status = "ok" =>
            /\ parsed.auth.code = ValueOf("code")
            /\ parsed.auth.state = (IF Carries("state") THEN Some(ValueOf("state"))
                                     ELSE None)

\* a request with the expected state and a code was parsed to that code
C13_Witness ==
    /\ Parsed
    /\ expected_state = Some("state_2")
    /\ parsed.status = "ok"
    /\ parsed.auth.code = "code_1"
    /\ Len(request.pairs) = MaxPairs

\* C14: a callback request that carries an error parameter fails with
\* "Authorization failed: <error> - <description>", the description being
\* "Unknown error" when the request has none, whatever code and state
\* parameters the request also carries.
C14_ErrorFirst ==
    (Parsed /\ request.line = "ok" /\ Carries("error")) =>
        /\ parsed.status = "err"
        /\ parsed.error.kind = "OAuth"
        /\ parsed.error.msg =
              <<"Authorization failed: ", ValueOf("error"), " - ",
                IF Carries("error_description") THEN ValueOf("error_description")
                ELSE "Unknown error">>

\* a request with an error parameter, a code and the expected state failed
\* with the error and "Unknown error"
C14_Witness ==
    /\ Parsed
    /\ request.line = "ok"
    /\ Carries("error")
    /\ Carries("code")
    /\ expected_state # None
    /\ Carries("state")
    /\ ValueOf("state") = expected_state[1]
    /\ parsed.error.msg = <<"Authorization failed: ", "access_denied", " - ",
                            "Unknown error">>

\* C15: wait_for_callback accepts at most one connection and reads at most once
\* from it; a call that returns after the read returns what
\* parse_callback_request gave for that one request, having answered 200 OK
\* exactly when the parse succeeded and 400 Bad Request when it failed; a call
\* that got no request fails.
C15_OneRequest ==
    /\ accepts <= 1
    /\ reads <= accepts
    /\ Parsed => (reads = 1 /\ cbpc \in {"parsed", "done"})
    /\ cbpc = "parsed" => Parsed
    /\ httpResponse \in {"", "200 OK", "400 Bad Request"}
    /\ httpResponse # "" =>
        /\ Parsed
        /\ (httpResponse = "200 OK") <=> (parsed.status = "ok")
        /\ (httpResponse = "400 Bad Request") <=> (parsed.status = "err")
    /\ cbpc = "done" =>
        /\ cbResult.status \in {"ok", "err"}
        /\ Parsed => (cbResult = parsed /\ httpResponse # "")
        /\ ~Parsed => (cbResult.status = "err" /\ httpResponse = "")
        /\ cbResult.status = "ok" => (accepts = 1 /\ reads = 1)
    /\ cbpc # "done" => cbResult = NoCbResult

\* the one request had no parameters: 400 was answered and the call failed
C15_Witness ==
    /\ cbpc = "done"
    /\ accepts = 1
    /\ reads = 1
    /\ request = [line |-> "ok", pairs |-> << >>]
    /\ httpResponse = "400 Bad Request"
    /\ cbResult.status = "err"

----------------------------------------------------------------------------
(* Properties of poll_operation and get_or_fetch_project_id *)

\* every poll request follows its own 5-second sleep, and there are at most 24
PollBounds ==
    /\ pollRequests <= 24
    /\ pollWaits = pollRequests
    /\ waited = 5 * pollRequests
    /\ ppc = "polling" => pollRequests >= 1
    /\ lastPoll = "non_success" => pollRequests >= 1
    /\ (ppc = "done" /\ projResult.error.msg = <<"Operation polling timeout">>)
        => /\ projResult.status = "err"
           /\ projResult.error.kind = "Auth"
           /\ pollRequests = 24

\* C19: poll_operation terminates; it sends at most 24 poll requests, each after
\* a 5-second sleep of its own; when 24 polls (those answered with a
\* non-success status included) gave no project identifier it fails with the
\* authentication error "Operation polling timeout".
C19_PollTerminates ==
    /\ []PollBounds
    /\ [][ (ppc = "sleeping" /\ pollRequests = 24)
             => /\ ppc' = "done"
                /\ projResult' = ProjErr(ErrorOf("Auth", <<"Operation polling timeout">>))
                /\ pollRequests' = pollRequests ]_vars
    /\ (ppc = "sleeping") ~> (ppc = "done")

\* 24 polls, the last answered with a non-success status, ended in the timeout
C19_Witness ==
    /\ ppc = "done"
    /\ projResult = ProjErr(ErrorOf("Auth", <<"Operation polling timeout">>))
    /\ pollRequests = 24
    /\ waited = 120
    /\ lastPoll = "non_success"

\* the cached value, else the first non-empty of GOOGLE_CLOUD_PROJECT and
\* GOOGLE_CLOUD_PROJECT_ID, if there is one
Preset ==
    IF project_id # None THEN project_id
    ELSE IF env.GOOGLE_CLOUD_PROJECT \notin {None, Some("")} THEN env.GOOGLE_CLOUD_PROJECT
    ELSE IF env.GOOGLE_CLOUD_PROJECT_ID \notin {None, Some("")}
         THEN env.GOOGLE_CLOUD_PROJECT_ID
    ELSE None

\* C20: the project is the cached value if there is one, else
\* GOOGLE_CLOUD_PROJECT if set and not empty, else GOOGLE_CLOUD_PROJECT_ID if
\* set and not empty, and in those cases no loadCodeAssist, onboardUser or poll
\* request is sent; otherwise the loadCodeAssist request is sent.
C20_ResolutionOrder ==
    /\ Preset # None
        => /\ loadRequests = 0
           /\ onboardRequests = 0
           /\ pollRequests = 0
           /\ ppc \in {"idle", "done"}
           /\ ppc = "done" => projResult = ProjOk(Preset[1])
    /\ (Preset = None /\ ppc # "idle") => loadRequests = 1

\* GOOGLE_CLOUD_PROJECT is empty, GOOGLE_CLOUD_PROJECT_ID is returned without
\* a request
C20_Witness ==
    /\ ppc = "done"
    /\ project_id = None
    /\ env.GOOGLE_CLOUD_PROJECT = Some("")
    /\ projResult = ProjOk("project-b")
    /\ loadRequests = 0

----------------------------------------------------------------------------
(* Properties of GeminiOAuthClient::chat, under RetrySpec *)

\* the delays slept so far: the first is 1 second, each next one is between
\* the one before and twice the one before, none is above 60 seconds
DelaysBounded ==
    /\ sleeps # << >> => sleeps[1] = 32
    /\ \A i \in 1..Len(sleeps) : sleeps[i] <= 60 * 32
    /\ \A i \in 1..(Len(sleeps) - 1) :
          sleeps[i] <= sleeps[i + 1] /\ sleeps[i + 1] <= 2 * sleeps[i]

\* at most 5 retries and 6 requests, one sleep before each retry
RetryBounds ==
    /\ retry_count <= 5
    /\ requests <= 6
    /\ rpc = "sending" => (requests = retry_count + 1 /\ Len(sleeps) = retry_count)
    /\ rpc = "sleeping" => (requests = retry_count /\ Len(sleeps) = retry_count - 1)
    /\ rpc = "done" => Len(sleeps) = retry_count
    /\ DelaysBounded

\* the step in which a generateContent request is answered
Answered == rpc = "sending" /\ rpc' # "sending"

C18_Unauthorized ==
    [][ (Answered /\ lastResponse'.status = 401)
          => /\ rpc' = "done"
             /\ chatResult'.status = "err"
             /\ chatResult'.error.kind = "Auth"
             /\ retry_count' = retry_count
             /\ tokenCalls' = tokenCalls ]_vars

----------------------------------------------------------------------------
(* Properties of get_valid_token's credential file, under AuthSpec *)

\* get_valid_token returns while holding tokens the token endpoint just issued
ReturnsWithNewTokens ==
    /\ apc \in {"refreshing", "exchanging"}
    /\ apc' = "done"
    /\ IsSome(tokenResp')

\* the credential file holds Credentials with this access token, owner-only
HoldsOwnerOnly(file, token) ==
    /\ file.state = "present"
    /\ file.creds.access_token = token
    /\ file.mode = "0600"

\* C24: when get_valid_token returns a token it got by a refresh or by an
\* authorization, the step that returns it has written the Credentials holding
\* that token to the credential file, with owner-only mode; and when the tokens
\* were issued but the file was not so written, get_valid_token returns an
\* error instead of the token.
C24_SavedBeforeReturned ==
    [][ ReturnsWithNewTokens
          => /\ authResult'.status = "ok"
                   => /\ HoldsOwnerOnly(credFile', authResult'.token)
                      /\ authResult'.token = tokenResp'[1].access_token
                      /\ fileWrites' = fileWrites + 1
             /\ ~HoldsOwnerOnly(credFile', tokenResp'[1].access_token)
                   => authResult'.status = "err" ]_vars

\* an authorization's token was returned, and the file that was absent holds it
C24_Witness ==
    /\ apc = "done"
    /\ authResult = AuthOk("at_new")
    /\ IsSome(tokenResp)
    /\ exchangeRequests = 1
    /\ fileWrites = 1
    /\ HoldsOwnerOnly(credFile, "at_new")

\* C25: get_valid_token never fails because of the credential file it finds:
\* with the file absent, and equally with a file that cannot be read or parsed,
\* its first step starts the authorization flow (the browser is opened).
C25_LoadNeverFatal ==
    [][ (apc = "idle" /\ apc' # "idle" /\ credFile.state \in {"absent", "corrupt"})
          => /\ browserOpens' = browserOpens + 1
             /\ apc' = "done" => authResult'.error.kind = "OAuth" ]_vars

----------------------------------------------------------------------------
(* auth/credentials.rs: Credentials::is_expired, one call *)

\* latest Utc::now() (minutes) at which is_expired is asked
MaxAskedAt == 6
\* latest expires_at (minutes) of the credentials asked
MaxExpiresAt == 14

\* the credentials is_expired is asked about
AskedCredentials ==
    { [access_token |-> "at_old", refresh_token |-> r, expires_at |-> e] :
        r \in {None, Some("rt_old")},
        e \in {None} \cup { Some(t) : t \in 0..MaxExpiresAt } }

ExpInit ==
    /\ BackIdle
    /\ LateIdle
    /\ TgIdle
    /\ PortIdle
    /\ CliIdle
    /\ ToolIdle
    /\ TruncIdle
    /\ exCreds \in AskedCredentials
    /\ exNow \in 0..MaxAskedAt
    /\ exOut = FALSE
    /\ exDone = FALSE

\* creds.is_expired()
IsExpiredCall ==
    /\ ~exDone
    /\ exOut' = is_expired(exCreds, exNow)
    /\ exDone' = TRUE
    /\ UNCHANGED <<exCreds, exNow>>

ExpNext ==
    \/ IsExpiredCall /\ UNCHANGED <<backVars, tgVars, portVars, cliVars, toolVars, truncVars, lateVars>>

ExpSpec == ExpInit /\ [][ExpNext]_vars

----------------------------------------------------------------------------
(* Properties of Credentials::is_expired, under ExpSpec *)

\* C28: is_expired is false for credentials without an expiry; with an expiry
\* it is true exactly when the expiry is no more than 5 minutes after now:
\* true for an expiry in the past or at now, true for one 2 minutes ahead, true
\* for one exactly 5 minutes ahead, false for any later one.
C28_ExpiryBuffer ==
    exDone =>
        IF exCreds.expires_at = None
        THEN exOut = FALSE
        ELSE LET expires == exCreds.expires_at[1]
             IN  /\ exOut <=> (exNow + 5 >= expires)
                 /\ expires <= exNow => exOut
                 /\ expires = exNow + 2 => exOut
                 /\ expires = exNow + 5 => exOut
                 /\ expires > exNow + 5 => ~exOut

\* asked exactly 5 minutes before the expiry: expired
C28_Witness ==
    /\ exDone
    /\ exCreds.expires_at = Some(exNow + 5)
    /\ exOut

----------------------------------------------------------------------------
(* agent/tokens.rs: truncate_history, one call *)

\* longest message sequence given to truncate_history
MaxTruncLen == 3
\* largest max_tokens given to truncate_history
MaxTruncBudget == 7

\* the messages given: texts of 0, 1, 2 and 4 estimated tokens
TruncTexts == { << >>, <<"ok">>, <<"Hi there">>, <<"Read test.txt">> }

TruncInputs == UNION { [1..n -> TruncTexts] : n \in 0..MaxTruncLen }

RECURSIVE truncate_walk(_, _, _, _)
\* the loop of truncate_history at index i (1-based) with `total` so far: the
\* start_idx it ends with; `break` at the first message that would exceed
truncate_walk(msgs, i, total, max_tokens) ==
    IF i = 0 THEN 1
    ELSE LET msg_tokens == estimate_tokens(msgs[i])
         IN  IF total + msg_tokens > max_tokens
             THEN i + 1
             ELSE truncate_walk(msgs, i - 1, total + msg_tokens, max_tokens)

\* faulty variant: the most recent message is kept even when it alone exceeds
truncate_history_keep_last(msgs, max_tokens) ==
    LET start_idx == truncate_walk(msgs, Len(msgs), 0, max_tokens)
    IN  IF msgs # << >> /\ start_idx > Len(msgs)
        THEN <<msgs[Len(msgs)]>>
        ELSE SubSeq(msgs, start_idx, Len(msgs))
\* truncate_history(messages, max_tokens): `&messages[start_idx..]`
truncate_history(msgs, max_tokens) ==
    SubSeq(msgs, truncate_walk(msgs, Len(msgs), 0, max_tokens), Len(msgs))

TruncInit ==
    /\ BackIdle
    /\ LateIdle
    /\ TgIdle
    /\ PortIdle
    /\ CliIdle
    /\ ToolIdle
    /\ ExpIdle
    /\ thMessages \in TruncInputs
    /\ thMax \in 0..MaxTruncBudget
    /\ thOut = << >>
    /\ thDone = FALSE

\* truncate_history(&messages, max_tokens)
TruncateHistoryCall ==
    /\ ~thDone
    /\ thOut' = truncate_history(thMessages, thMax)
    /\ thDone' = TRUE
    /\ UNCHANGED <<thMessages, thMax>>

TruncNext ==
    \/ TruncateHistoryCall /\ UNCHANGED <<backVars, tgVars, portVars, cliVars, toolVars, expVars, lateVars>>

TruncSpec == TruncInit /\ [][TruncNext]_vars

----------------------------------------------------------------------------
(* Properties of truncate_history, under TruncSpec *)

RECURSIVE TextsTokens(_)
\* the summed estimate_tokens of a sequence of texts
TextsTokens(ts) ==
    IF ts = << >> THEN 0 ELSE estimate_tokens(Head(ts)) + TextsTokens(Tail(ts))

\* the last k elements of a sequence
Suffix(s, k) == SubSeq(s, Len(s) - k + 1, Len(s))

\* C27: truncate_history returns a contiguous suffix of the messages, in their
\* order, whose summed estimate is within max_tokens, and the longest such
\* suffix; it stops at the first message, walking back from the most recent,
\* that would exceed the budget; it returns all messages when they fit, ends
\* with the most recent message when it is not empty, and is empty when the
\* most recent message alone exceeds the budget.
C27_LongestSuffix ==
    thDone =>
        LET n == Len(thMessages)
            k == Len(thOut)
        IN  /\ k <= n
            /\ thOut = Suffix(thMessages, k)
            /\ TextsTokens(thOut) <= thMax
            /\ \A j \in 0..n : TextsTokens(Suffix(thMessages, j)) <= thMax => j <= k
            /\ k < n => TextsTokens(thOut) + estimate_tokens(thMessages[n - k]) > thMax
            /\ TextsTokens(thMessages) <= thMax => thOut = thMessages
            /\ k > 0 => thOut[k] = thMessages[n]
            /\ (n > 0 /\ estimate_tokens(thMessages[n]) > thMax) => thOut = << >>

\* three messages of 1, 4 and 1 tokens under a budget of 2: only the last is
\* returned; the first, which would still have fitted, is not reached
C27_Witness ==
    /\ thDone
    /\ thMessages = << <<"ok">>, <<"Read test.txt">>, <<"ok">> >>
    /\ thMax = 2
    /\ thOut = << <<"ok">> >>

----------------------------------------------------------------------------
(* tools/runner.rs: ToolRunner::execute, one call *)

\* the names tools are registered under
ToolNames == {"read_file", "test_tool"}
\* the names asked for: registered ones, one that differs in case only, one
\* that differs by a trailing character, one that is unrelated
AskedNames == ToolNames \cup {"Read_File", "test_tool2", "unknown_tool"}
\* the arguments given
ToolParams == {"{}", "{\"path\":\"test.txt\"}"}
\* what a tool's execute returns
ToolResults == { Ok(<<"success">>), Err(ErrorOf("Tool", <<"Failed to read test.txt">>)) }

\* the registries `register` can build: each registered name with its tool,
\* a tool being what its execute returns for each argument
Registries == UNION { [ns -> [ToolParams -> ToolResults]] : ns \in SUBSET ToolNames }

\* faulty variant: the name is looked up without regard to case
LookupIgnoringCase(reg, name) ==
    LET lower == IF name = "Read_File" THEN "read_file" ELSE name
    IN  IF lower \in DOMAIN reg THEN Some(lower) ELSE None
\* `self.tools.get(name)`: the entry registered under exactly this name
Lookup(reg, name) == IF name \in DOMAIN reg THEN Some(name) ELSE None

\* ToolRunner::execute(name, params) on a registry: the result, and the tools
\* whose execute ran
execute(reg, name, params) ==
    LET tool == Lookup(reg, name)
    IN  IF tool = None
        THEN [out |-> Err(ErrorOf("Tool", <<"Unknown tool: ", name>>)),
              execs |-> << >>]
        ELSE [out |-> reg[tool[1]][params], execs |-> << <<tool[1], params>> >>]

ToolInit ==
    /\ BackIdle
    /\ LateIdle
    /\ TgIdle
    /\ PortIdle
    /\ CliIdle
    /\ TruncIdle
    /\ ExpIdle
    /\ tools \in Registries
    /\ toolName \in AskedNames
    /\ toolParams \in ToolParams
    /\ toolOut = << >>
    /\ toolExecs = << >>
    /\ toolDone = FALSE

\* runner.execute(name, params).await
ExecuteCall ==
    /\ ~toolDone
    /\ LET r == execute(tools, toolName, toolParams)
       IN  /\ toolOut' = r.out
           /\ toolExecs' = r.execs
    /\ toolDone' = TRUE
    /\ UNCHANGED <<tools, toolName, toolParams>>

ToolNext ==
    \/ ExecuteCall /\ UNCHANGED <<backVars, tgVars, portVars, cliVars, truncVars, expVars, lateVars>>

ToolSpec == ToolInit /\ [][ToolNext]_vars

----------------------------------------------------------------------------
(* Properties of ToolRunner::execute, under ToolSpec *)

\* C26: execute(name, args) fails with a Tool error that names the unknown
\* tool when no tool is registered under exactly that name, and no tool is
\* executed then; when a tool is registered under the name, exactly that tool
\* is executed once with args and what it returns is what execute returns.
C26_ExecuteByName ==
    toolDone =>
        IF toolName \in DOMAIN tools
        THEN /\ toolOut = tools[toolName][toolParams]
             /\ toolExecs = << <<toolName, toolParams>> >>
        ELSE /\ toolOut.ok = FALSE
             /\ toolOut.err = ErrorOf("Tool", <<"Unknown tool: ", toolName>>)
             /\ toolExecs = << >>

\* a name that differs from a registered one in case only: unknown, nothing ran
C26_Witness ==
    /\ toolDone
    /\ toolName = "Read_File"
    /\ "read_file" \in DOMAIN tools
    /\ toolOut = Err(ErrorOf("Tool", <<"Unknown tool: ", "Read_File">>))
    /\ toolExecs = << >>

----------------------------------------------------------------------------
(* main.rs: run_agent_interactive, with AgentLoop::run as modelled above *)

\* most turns taken in one session
MaxTurns == 2

\* the lines read at the prompt, trimmed
CliInputs == { <<"exit">>, << >>, <<"Read test.txt">> }

\* config.max_iterations of the session: one that lets a turn end in an answer
\* after tool calls, and in MaxIterations after two rounds of them
CliIterations == {2}

notCliVars == <<bmVars, authVars, cbVars, projVars, retryVars, tgVars, portVars,
                toolVars, truncVars, expVars, lateVars>>

\* faulty variant: the user message is pushed before the turn's outcome is known
HistoryAfterTurnEager(hist, input, res) ==
    IF res.status = "ok"
    THEN hist \o <<user(input), assistant(res.content)>>
    ELSE hist \o <<user(input)>>
\* `match result`: Ok pushes the user message and the answer, Err only prints
HistoryAfterTurn(hist, input, res) ==
    IF res.status = "ok"
    THEN hist \o <<user(input), assistant(res.content)>>
    ELSE hist

CliInit ==
    /\ LateIdle
    /\ BmIdle
    /\ AuthIdle
    /\ CbIdle
    /\ ProjIdle
    /\ RetryIdle
    /\ TgIdle
    /\ PortIdle
    /\ ToolIdle
    /\ TruncIdle
    /\ ExpIdle
    /\ CliIdle
    /\ pc = "returned"
    /\ max_iterations \in CliIterations
    /\ history = << >>
    /\ message = user(<<"Hi there">>)
    /\ messages = << >>
    /\ iteration = 0
    /\ response = NoResponse
    /\ tcIdx = 0
    /\ result = NoResult
    /\ chatLog = << >>
    /\ respLog = << >>
    /\ execLog = << >>

\* run_agent_interactive up to its first prompt: Context::new(config)?, and
\* an empty history
CliSessionStart ==
    /\ cliPc = "idle"
    /\ cliContexts' = cliContexts + 1
    /\ \E created \in BOOLEAN :
        cliPc' = IF created THEN "prompt" ELSE "exited"
    /\ cliHistory' = << >>
    /\ UNCHANGED <<cliInput, cliArg, cliTurn, cliBefore, cliTurns, loopVars>>

\* one line is read: exit ends the session, an empty line is skipped, any
\* other line starts a turn: history.clone(), the client is made (`?` inside
\* the async block) and AgentLoop::run is called
ReadLine ==
    /\ cliPc = "prompt"
    /\ \E input \in CliInputs, client \in BOOLEAN :
        IF input = <<"exit">>
        THEN /\ cliPc' = "exited"
             /\ UNCHANGED <<cliHistory, cliInput, cliArg, cliTurn, cliBefore, cliTurns,
                            cliContexts, loopVars>>
        ELSE IF input = << >>
        THEN UNCHANGED <<cliVars, loopVars>>
        ELSE /\ cliTurns < MaxTurns
             /\ cliTurns' = cliTurns + 1
             /\ cliInput' = input
             /\ cliArg' = cliHistory
             /\ cliBefore' = cliHistory
             /\ IF client
                THEN /\ cliPc' = "running"
                     /\ cliTurn' = NoResult
                     /\ cliHistory' = cliHistory
                     /\ pc' = "idle"
                     /\ history' = cliHistory
                     /\ message' = user(input)
                     /\ messages' = << >>
                     /\ iteration' = 0
                     /\ response' = NoResponse
                     /\ tcIdx' = 0
                     /\ result' = NoResult
                     /\ chatLog' = << >>
                     /\ respLog' = << >>
                     /\ execLog' = << >>
                     /\ UNCHANGED max_iterations
                ELSE /\ cliPc' = "prompt"
                     /\ cliTurn' = RunErr(ErrorOf("Auth", <<"Not authenticated">>))
                     /\ cliHistory' = HistoryAfterTurn(cliHistory, input, cliTurn')
                     /\ UNCHANGED loopVars
             /\ UNCHANGED cliContexts

\* AgentLoop::run has returned: `match result`
TurnEnds ==
    /\ cliPc = "running"
    /\ pc = "returned"
    /\ cliTurn' = result
    /\ cliHistory' = HistoryAfterTurn(cliHistory, cliInput, result)
    /\ cliPc' = "prompt"
    /\ UNCHANGED <<cliInput, cliArg, cliBefore, cliTurns, cliContexts, loopVars>>

CliNext ==
    \/ CliSessionStart /\ UNCHANGED notCliVars
    \/ ReadLine /\ UNCHANGED notCliVars
    \/ cliPc = "running" /\ Run /\ UNCHANGED <<cliVars, notCliVars>>
    \/ cliPc = "running" /\ ChatFails /\ UNCHANGED <<cliVars, notCliVars>>
    \/ cliPc = "running" /\ Chat /\ UNCHANGED <<cliVars, notCliVars>>
    \/ cliPc = "running" /\ ExecuteTool /\ UNCHANGED <<cliVars, notCliVars>>
    \/ TurnEnds /\ UNCHANGED notCliVars

CliSpec == CliInit /\ [][CliNext]_vars

----------------------------------------------------------------------------
(* Properties of the interactive session's history, under CliSpec *)

\* a message as Message::user or Message::assistant builds it
PlainMessage(m) ==
    /\ m.role \in {"user", "assistant"}
    /\ m.tool_call_id = None
    /\ m.tool_calls = None

\* the history holds whole turns only: a user message and a plain answer each
WholeTurns ==
    /\ Len(cliHistory) % 2 = 0
    /\ \A i \in DOMAIN cliHistory :
        /\ PlainMessage(cliHistory[i])
        /\ cliHistory[i].role = IF i % 2 = 1 THEN "user" ELSE "assistant"

\* while AgentLoop::run runs, the history and the slice handed to it stay as
\* they were
RunLeavesHistory ==
    cliPc = "running" => (cliHistory = cliBefore /\ cliArg = cliBefore /\ history = cliBefore)

\* run's own message list has taken up tool calls and their results
ToolTraffic == \E i \in DOMAIN messages : messages[i].role = "tool"

\* C23: AgentLoop::run never modifies the caller's history; the interactive
\* session appends exactly the user message and the final assistant answer
\* after a successful turn and leaves the history as it was after a failed one
\* (MaxIterations included); the tool-call and tool-result messages of a turn
\* never enter the history.
C23_HistoryFrame ==
    /\ []WholeTurns
    /\ []RunLeavesHistory
    /\ [][ IF cliPc = "running" /\ cliPc' = "prompt"
           THEN IF result.status = "ok"
                THEN cliHistory' = cliHistory
                          \o <<user(cliInput), assistant(result.content)>>
                ELSE cliHistory' = cliHistory
           ELSE cliPc # "idle" => cliHistory' = cliHistory ]_vars

\* the second turn ended in an answer after tool calls: the history holds the
\* two turns' user messages and answers, four messages
C23_Witness ==
    /\ cliPc = "prompt"
    /\ cliTurns = 2
    /\ cliTurn.status = "ok"
    /\ ToolTraffic
    /\ Len(messages) > 4
    /\ Len(cliHistory) = 4
    /\ cliHistory[3] = user(cliInput)
    /\ cliHistory[4] = assistant(cliTurn.content)

----------------------------------------------------------------------------
(* adapters/telegram.rs: TelegramChannel::handle_message, one task per message *)

\* most messages handled concurrently
MaxMsgs == 3

\* the chats messages arrive in
Chats == {1001, 1002}

\* teloxide's User, as far as is_allowed reads it
User(username, id) == [username |-> username, id |-> id]
alice == User(Some(<<"alice">>), 7)
bob == User(Some(<<"bob">>), 8)
anonymous == User(None, 42)

\* msg.from(): Option<&User>
Senders == {None, Some(alice), Some(bob), Some(anonymous)}

\* config.telegram.allow_from, as a set: usernames and ids as the operator
\* wrote them into config.json
AllowLists ==
    { {}, {<<"alice">>}, {Digits(42)}, {<<"alice">>, Digits(8)}, {<<"carol">>},
      {<< >>} }

\* the messages the dispatcher hands to handle_message
Incoming == [chat : Chats, from : Senders, text : BOOLEAN]

\* Option<&str>::unwrap_or
unwrap_or(o, default) == IF IsSome(o) THEN o[1] ELSE default

\* TelegramChannel::is_allowed
is_allowed(allow, from) ==
    IF allow = {} THEN TRUE
    ELSE IF from = None THEN FALSE
    ELSE LET username == unwrap_or(from[1].username, << >>)
             id == Digits(from[1].id)
         IN  \E allowed \in allow : allowed = username \/ allowed = id

\* the lock instances made so far
LockInstances == { locks[c] : c \in DOMAIN locks } \cup { lock[m] : m \in DOMAIN lock }

\* Arc::new(Mutex::new(())): an instance that is none of those made so far
FreshLock == 1 + CHOOSE n \in LockInstances : \A k \in LockInstances : k <= n

\* faulty variant: every message gets a lock of its own (`insert` for `entry`)
InsertAlways(map, chat_id) == [map EXCEPT ![chat_id] = FreshLock]
\* `locks.entry(chat_id).or_insert_with(|| Arc::new(Mutex::new(())))`
EntryOrInsert(map, chat_id) ==
    IF map[chat_id] # 0 THEN map ELSE [map EXCEPT ![chat_id] = FreshLock]

\* the lock instance's guard is held by some handler
Held(l) == \E g \in guards : g[1] = l

\* the handlers start with the messages given, nothing locked, and the one
\* Context of run_gateway
TgStart(msgs) ==
    /\ updates = msgs
    /\ hpc = [m \in DOMAIN msgs |-> "new"]
    /\ locks = [c \in Chats |-> 0]
    /\ lock = [m \in DOMAIN msgs |-> 0]
    /\ guards = {}
    /\ runsStarted = [m \in DOMAIN msgs |-> 0]
    /\ sent = [m \in DOMAIN msgs |-> << >>]
    /\ contexts = 1

TgInit ==
    /\ BackIdle
    /\ LateIdle
    /\ PortIdle
    /\ CliIdle
    /\ ToolIdle
    /\ TruncIdle
    /\ ExpIdle
    /\ allow_from \in {{}, {<<"alice">>}}
    /\ \E msgs \in [1..MaxMsgs -> [chat : Chats, from : {Some(alice)}, text : {TRUE}]] :
        TgStart(msgs)

\* handle_message up to send_chat_action: the sender is checked, a message
\* without text is dropped
Receive(m) ==
    /\ hpc[m] = "new"
    /\ hpc' = [hpc EXCEPT ![m] =
                IF is_allowed(allow_from, updates[m].from) /\ updates[m].text
                THEN "typing" ELSE "done"]
    /\ UNCHANGED <<allow_from, updates, locks, lock, guards, runsStarted, sent, contexts>>

\* send_chat_action has returned (its result is dropped); the lock of the chat
\* is taken from the map, under the map's mutex
GetLock(m) ==
    /\ hpc[m] = "typing"
    /\ locks' = EntryOrInsert(locks, updates[m].chat)
    /\ lock' = [lock EXCEPT ![m] = locks'[updates[m].chat]]
    /\ hpc' = [hpc EXCEPT ![m] = "locking"]
    /\ UNCHANGED <<allow_from, updates, guards, runsStarted, sent, contexts>>

\* `lock.lock().await` is granted; Context::new(&self.config)? and
\* agent_loop.run(msg, &mut ctx) up to its first await
Acquire(m) ==
    /\ hpc[m] = "locking"
    /\ ~Held(lock[m])
    /\ contexts' = contexts + 1
    /\ \E created \in BOOLEAN :
        IF created
        THEN /\ guards' = guards \cup {<<lock[m], m>>}
             /\ runsStarted' = [runsStarted EXCEPT ![m] = @ + 1]
             /\ hpc' = [hpc EXCEPT ![m] = "running"]
        ELSE /\ guards' = guards
             /\ runsStarted' = runsStarted
             /\ hpc' = [hpc EXCEPT ![m] = "done"]
    /\ UNCHANGED <<allow_from, updates, locks, lock, sent>>

\* run has returned: the answer, or the error text, is sent to the chat
RunReturns(m) ==
    /\ hpc[m] = "running"
    /\ \E reply \in {<<"Hello, human!">>, <<"<cross mark> Error: ", "LLM error: ", "API error">>} :
        sent' = [sent EXCEPT ![m] = Append(@, reply)]
    /\ hpc' = [hpc EXCEPT ![m] = "replying"]
    /\ UNCHANGED <<allow_from, updates, locks, lock, guards, runsStarted, contexts>>

\* send_message has returned (`?`): handle_message returns, the guard is dropped
Return(m) ==
    /\ hpc[m] = "replying"
    /\ guards' = guards \ {<<lock[m], m>>}
    /\ hpc' = [hpc EXCEPT ![m] = "done"]
    /\ UNCHANGED <<allow_from, updates, locks, lock, runsStarted, sent, contexts>>

notTgVars == <<backVars, portVars, cliVars, toolVars, truncVars, expVars, lateVars>>

TgNext ==
    \/ \E m \in DOMAIN updates : Receive(m) /\ UNCHANGED notTgVars
    \/ \E m \in DOMAIN updates : GetLock(m) /\ UNCHANGED notTgVars
    \/ \E m \in DOMAIN updates : Acquire(m) /\ UNCHANGED notTgVars
    \/ \E m \in DOMAIN updates : RunReturns(m) /\ UNCHANGED notTgVars
    \/ \E m \in DOMAIN updates : Return(m) /\ UNCHANGED notTgVars

TgSpec == TgInit /\ [][TgNext]_vars

\* one message of any sender, under any allow-list
TgAuthInit ==
    /\ BackIdle
    /\ LateIdle
    /\ PortIdle
    /\ CliIdle
    /\ ToolIdle
    /\ TruncIdle
    /\ ExpIdle
    /\ allow_from \in AllowLists
    /\ \E msgs \in [1..1 -> Incoming] : TgStart(msgs)

TgAuthSpec == TgAuthInit /\ [][TgNext]_vars

----------------------------------------------------------------------------
(* Properties of the Telegram handlers, under TgSpec and TgAuthSpec *)

\* the handler of m is inside its turn: AgentLoop::run or the reply that
\* follows it
InTurn(m) == hpc[m] \in {"running", "replying"}

\* the handler of m has taken its lock instance from the map
HasLock(m) == lock[m] # 0

\* C21: at most one turn runs per chat at a time: all handlers of one chat get
\* the same lock instance from the map (and handlers of different chats get
\* different ones), a handler holds the guard of its instance for its whole
\* turn, two handlers of one chat are never inside their turns together, and a
\* handler waiting for its lock is held up only by a turn of its own chat.
C21_OneTurnPerChat ==
    \A m1, m2 \in DOMAIN updates :
        /\ (HasLock(m1) /\ HasLock(m2))
              => (lock[m1] = lock[m2] <=> updates[m1].chat = updates[m2].chat)
        /\ InTurn(m1) <=> <<lock[m1], m1>> \in guards
        /\ (m1 # m2 /\ updates[m1].chat = updates[m2].chat)
              => ~(InTurn(m1) /\ InTurn(m2))
        /\ (hpc[m1] = "locking" /\ Held(lock[m1]))
              => \E m \in DOMAIN updates :
                    InTurn(m) /\ updates[m].chat = updates[m1].chat

\* two turns of different chats run together while a second message of one of
\* these chats waits for the lock its chat's running handler holds
C21_Witness ==
    \E m1, m2, m3 \in DOMAIN updates :
        /\ updates[m1].chat # updates[m2].chat
        /\ hpc[m1] = "running"
        /\ hpc[m2] = "running"
        /\ updates[m3].chat = updates[m1].chat
        /\ hpc[m3] = "locking"
        /\ lock[m3] = lock[m1]
        /\ Held(lock[m3])

\* C29: the gateway process makes one Context and reuses it for every turn:
\* no step of handling a message makes a new Context.
C29_ContextReused ==
    [][ contexts' = contexts ]_vars

\* the sender is named by the allow-list: by username or by numeric id
Listed(from) ==
    /\ from # None
    /\ \/ IsSome(from[1].username) /\ from[1].username[1] \in allow_from
       \/ Digits(from[1].id) \in allow_from

\* C30: with an empty allow-list every sender is allowed; with a non-empty one
\* a message is handled only if its sender is present and the sender's
\* username or numeric id is in the list; a message of any other sender never
\* starts an agent run and gets no reply.
C30_AllowList ==
    \A m \in DOMAIN updates :
        LET allowed == allow_from = {} \/ Listed(updates[m].from)
        IN  /\ (allowed /\ updates[m].text) => hpc[m] # "done" \/ contexts > 1
            /\ ~allowed => /\ hpc[m] \in {"new", "done"}
                           /\ runsStarted[m] = 0
                           /\ sent[m] = << >>
                           /\ contexts = 1

----------------------------------------------------------------------------
(* auth/provider.rs authorize and auth/callback_server.rs wait_for_callback,
   several attempts in one process *)

\* most authorization attempts made concurrently
MaxAttempts == 2

Attempts == 1..MaxAttempts

\* the redirect the browser makes after consent to the URL of attempt o; o = 0
\* is a request of some other client, which carries no state
RedirectOf(o) ==
    IF o = 0
    THEN [line |-> "ok", pairs |-> << <<"code", "code_2">> >>]
    ELSE [line |-> "ok", pairs |-> << <<"code", "code_1">>, <<"state", atState[o]>> >>]

\* faulty variant: a second listener may bind the port (as with SO_REUSEPORT)
BindSucceedsAlways(holder) == TRUE
\* TcpListener::bind("127.0.0.1:8085") succeeds: no listener holds the port
BindSucceeds(holder) == holder = 0

PortInit ==
    /\ BackIdle
    /\ LateIdle
    /\ TgIdle
    /\ CliIdle
    /\ ToolIdle
    /\ TruncIdle
    /\ ExpIdle
    /\ atpc = [a \in Attempts |-> "start"]
    /\ portHolder = 0
    /\ atState = [a \in Attempts |-> ""]
    /\ atResult = [a \in Attempts |-> NoCbResult]
    /\ delivered = {}

\* authorize up to wait_for_callback's bind: the state is drawn, the
\* authorization URL is opened in the browser
OpenBrowser(a) ==
    /\ atpc[a] = "start"
    /\ \E st \in States : atState' = [atState EXCEPT ![a] = st]
    /\ atpc' = [atpc EXCEPT ![a] = "binding"]
    /\ UNCHANGED <<portHolder, atResult, delivered>>

\* TcpListener::bind(&addr).await, `?` with an OAuth error on failure
Bind(a) ==
    /\ atpc[a] = "binding"
    /\ IF BindSucceeds(portHolder)
       THEN /\ portHolder' = a
            /\ atpc' = [atpc EXCEPT ![a] = "listening"]
            /\ atResult' = atResult
       ELSE /\ portHolder' = portHolder
            /\ atpc' = [atpc EXCEPT ![a] = "done"]
            /\ atResult' = [atResult EXCEPT ![a] =
                    CbErr(<<"Failed to start callback server on ", "127.0.0.1:8085", ": ">>)]
    /\ UNCHANGED <<atState, delivered>>

\* the listener of a accepts one connection, made after the URL of attempt o
\* (or by another client), and wait_for_callback handles it and returns: the
\* listener is dropped
Deliver(a) ==
    /\ atpc[a] = "listening"
    /\ \E o \in {0} \cup { b \in Attempts : atpc[b] # "start" } :
        /\ delivered' = delivered \cup
                {[origin |-> o, receiver |-> a, holder |-> portHolder]}
        /\ atResult' = [atResult EXCEPT ![a] =
                parse_callback_request(RedirectOf(o), Some(atState[a]))]
    /\ atpc' = [atpc EXCEPT ![a] = "done"]
    /\ portHolder' = IF portHolder = a THEN 0 ELSE portHolder
    /\ UNCHANGED atState

notPortVars == <<backVars, tgVars, cliVars, toolVars, truncVars, expVars, lateVars>>

PortNext ==
    \/ \E a \in Attempts : OpenBrowser(a) /\ UNCHANGED notPortVars
    \/ \E a \in Attempts : Bind(a) /\ UNCHANGED notPortVars
    \/ \E a \in Attempts : Deliver(a) /\ UNCHANGED notPortVars

PortSpec == PortInit /\ [][PortNext]_vars

----------------------------------------------------------------------------
(* Properties of concurrent authorization attempts, under PortSpec *)

\* the attempt awaits a callback on its listener
Awaiting(a) == atpc[a] = "listening"

\* the attempt's bind failed: an OAuth error about the callback server
BindFailed(a) ==
    /\ atpc[a] = "done"
    /\ atResult[a].status = "err"
    /\ atResult[a].error.kind = "OAuth"
    /\ atResult[a].error.msg[1] = "Failed to start callback server on "

\* one listener at most, which is the holder of the port, and every callback
\* went to the holder of the port
PortExclusive ==
    /\ \A a, b \in Attempts : (Awaiting(a) /\ Awaiting(b)) => a = b
    /\ \A a \in Attempts : Awaiting(a) <=> portHolder = a
    /\ \A d \in delivered : d.receiver = d.holder

\* C22: at most one authorization attempt awaits a callback at a time, and it
\* is the one holding port 8085; an attempt that binds while another holds the
\* port ends in an OAuth failure without having listened; a callback is never
\* delivered to an attempt other than the one holding the port.
C22_OneListener ==
    [][ /\ PortExclusive'
        /\ \A a \in Attempts :
             (atpc[a] = "binding" /\ atpc'[a] # "binding" /\ portHolder # 0)
                => /\ BindFailed(a)'
                   /\ portHolder' = portHolder
                   /\ delivered' = delivered ]_vars

\* the second attempt failed to bind while the first held the port, and its
\* browser's redirect then reached the first attempt, the holder
C22_Witness ==
    \E a, b \in Attempts :
        /\ a # b
        /\ BindFailed(b)
        /\ [origin |-> b, receiver |-> a, holder |-> a] \in delivered
        /\ atpc[a] = "done"

----------------------------------------------------------------------------
(* agent/gemini_oauth.rs and agent/llm/gemini.rs: parse_response and
   convert_messages (the same in both clients), around the loop's pushes *)

\* most parts in one candidate
MaxParts == 3

\* Part: text and functionCall, each optional
Parts ==
    [text : {None, Some(<<"Let me check.">>)},
     function_call : {None} \cup { Some([name |-> n, args |-> "{path:test.txt}"]) :
                                    n \in RequestedNames }]

\* what candidates.first() may be: no candidate, or one with its parts
Candidates == {None} \cup { Some(ps) : ps \in UNION { [1..n -> Parts] : n \in 0..MaxParts } }

\* faulty variant: the id counts all parts, not the function calls before it
NextCallIdByPart(seen, tool_calls) == CallId(seen)
\* `format!("tc_{}", tool_calls.len())`
NextCallId(seen, tool_calls) == CallId(Len(tool_calls))

RECURSIVE parse_parts(_, _, _, _)
\* the loop over candidate.content.parts, from part i on
parse_parts(parts, i, content, tool_calls) ==
    IF i > Len(parts) THEN [content |-> content, tool_calls |-> tool_calls]
    ELSE LET part == parts[i]
             c == IF IsSome(part.text) THEN part.text ELSE content
             tcs == IF IsSome(part.function_call)
                    THEN Append(tool_calls,
                                ToolCallRequest(NextCallId(i - 1, tool_calls),
                                                part.function_call[1].name))
                    ELSE tool_calls
         IN  parse_parts(parts, i + 1, c, tcs)

\* parse_response: Result<LlmResponse>
parse_response(cands) ==
    IF cands = None THEN ChatErr(ErrorOf("Llm", <<"No candidates in response">>))
    ELSE ChatOk(parse_parts(cands[1], 1, None, << >>))

\* what run pushes for a response with tool calls: the assistant message with
\* the calls, then one tool result per call, in order
PushedFor(r) ==
    <<assistant_with_tools(unwrap_or_default(r.content), r.tool_calls)>>
    \o [k \in DOMAIN r.tool_calls |->
            tool_result(r.tool_calls[k].id,
                        execute_tool(ToolRunner_execute(r.tool_calls[k].name,
                                                        Ok(<<"test content">>))))]

\* the wire block of one message
convert_message(m) ==
    IF m.role = "tool"
    THEN [role |-> "function",
          parts |-> << [functionResponse |->
                          [name |-> IF IsSome(m.tool_call_id) THEN m.tool_call_id[1]
                                    ELSE <<"unknown">>,
                           response |-> [result |-> m.content]]] >>]
    ELSE IF IsSome(m.tool_calls)
    THEN [role |-> IF m.role = "assistant" THEN "model" ELSE "user",
          parts |-> [k \in DOMAIN m.tool_calls[1] |->
                        [functionCall |-> [name |-> <<m.tool_calls[1][k].name>>,
                                           args |-> m.tool_calls[1][k].arguments]]]]
    ELSE [role |-> IF m.role = "assistant" THEN "model" ELSE "user",
          parts |-> << [text |-> m.content] >>]

\* the messages without the system message, in their order
NonSystem(msgs) == SelectSeq(msgs, LAMBDA m : m.role # "system")

\* convert_messages
convert_messages(msgs) ==
    [k \in DOMAIN NonSystem(msgs) |-> convert_message(NonSystem(msgs)[k])]

WireInit ==
    /\ BackIdle
    /\ FrontIdle
    /\ EstIdle
    /\ CallsIdle
    /\ CtxIdle
    /\ RegIdle
    /\ BridgeIdle
    /\ wpc = "idle"
    /\ candidates \in Candidates
    /\ llmResponse = << >>
    /\ wireMessages = build_messages(<< >>, <<"Read test.txt">>)
    /\ contents = << >>

\* self.parse_response(&gemini_response)
ParseResponse ==
    /\ wpc = "idle"
    /\ llmResponse' = parse_response(candidates)
    /\ wpc' = "parsed"
    /\ UNCHANGED <<candidates, wireMessages, contents>>

\* run pushes the assistant message and the tool results
PushTurn ==
    /\ wpc = "parsed"
    /\ llmResponse.ok
    /\ has_tool_calls(llmResponse.resp)
    /\ wireMessages' = wireMessages \o PushedFor(llmResponse.resp)
    /\ wpc' = "pushed"
    /\ UNCHANGED <<candidates, llmResponse, contents>>

\* the next chat call: self.convert_messages(messages)
ConvertMessages ==
    /\ wpc = "pushed"
    /\ contents' = convert_messages(wireMessages)
    /\ wpc' = "converted"
    /\ UNCHANGED <<candidates, llmResponse, wireMessages>>

notWireVars == <<backVars, frontVars, estVars, callsVars, ctxVars, regVars, bridgeVars>>

WireNext ==
    \/ ParseResponse /\ UNCHANGED notWireVars
    \/ PushTurn /\ UNCHANGED notWireVars
    \/ ConvertMessages /\ UNCHANGED notWireVars

WireSpec == WireInit /\ [][WireNext]_vars


\* the parts of the response that carry a function call, in part order
FunctionCallParts == SelectSeq(candidates[1], LAMBDA p : IsSome(p.function_call))

\* the tool-result messages run pushed for the response
ToolResultsPushed == SelectSeq(wireMessages, LAMBDA m : m.role = "tool")

\* C31: parse_response gives the i-th function-call part of a response the id
\* tc_<i>, counting from 0 in part order; the ids of one response are pairwise
\* distinct, and each tool-result message pushed for the response carries the
\* id of exactly one of its requests.
C31_IdsByIndex ==
    (wpc # "idle" /\ llmResponse.ok) =>
        LET tcs == llmResponse.resp.tool_calls
        IN  /\ Len(tcs) = Len(FunctionCallParts)
            /\ \A i \in DOMAIN tcs :
                  /\ tcs[i].id = <<"tc_">> \o Digits(i - 1)
                  /\ tcs[i].name = FunctionCallParts[i].function_call[1].name
            /\ \A i, j \in DOMAIN tcs : tcs[i].id = tcs[j].id => i = j
            /\ wpc \in {"pushed", "converted"} =>
                  /\ Len(ToolResultsPushed) = Len(tcs)
                  /\ \A k \in DOMAIN ToolResultsPushed :
                        Cardinality({ i \in DOMAIN tcs :
                            Some(tcs[i].id) = ToolResultsPushed[k].tool_call_id }) = 1

\* two function calls after a text part, parsed and answered
C31_Witness ==
    /\ wpc = "pushed"
    /\ Len(candidates[1]) = 3
    /\ IsSome(candidates[1][1].text) /\ ~IsSome(candidates[1][1].function_call)
    /\ Len(llmResponse.resp.tool_calls) = 2
    /\ llmResponse.resp.tool_calls[2].id = <<"tc_", "1">>
    /\ Len(ToolResultsPushed) = 2

\* the assistant turn a tool-result message answers: the last message with
\* tool calls before position k
PrecedingTurn(msgs, k) ==
    CHOOSE a \in 1..(k - 1) :
        /\ IsSome(msgs[a].tool_calls)
        /\ \A b \in (a + 1)..(k - 1) : ~IsSome(msgs[b].tool_calls)

\* C34: in the wire mapping every tool-result message becomes a
\* function-response block in the position of the message, and the block names
\* the same function as the function-call block it answers in the preceding
\* assistant turn.
C34_ResponseNamesFunction ==
    wpc = "converted" =>
        LET msgs == NonSystem(wireMessages)
        IN  /\ Len(contents) = Len(msgs)
            /\ \A k \in DOMAIN msgs :
                  msgs[k].role = "tool" =>
                      LET a == PrecedingTurn(msgs, k)
                      IN  /\ contents[k].role = "function"
                          /\ contents[k].parts[1].functionResponse.name
                               = contents[a].parts[k - a].functionCall.name


----------------------------------------------------------------------------
(* agent/tokens.rs: estimate_tokens, one call *)

\* most pieces in one text asked
MaxEstAtoms == 3

EstAtoms == {"a", "Hi", "Hello", "tc_", "Hello, human!"}

\* the texts asked: "", "Hi", "Hello", .. up to MaxEstAtoms pieces
EstTexts == UNION { [1..n -> EstAtoms] : n \in 0..MaxEstAtoms }

EstInit ==
    /\ BackIdle
    /\ FrontIdle
    /\ WireIdle
    /\ CallsIdle
    /\ CtxIdle
    /\ RegIdle
    /\ BridgeIdle
    /\ esText \in EstTexts
    /\ esOut = 0
    /\ esDone = FALSE

\* estimate_tokens(text)
EstimateTokensCall ==
    /\ ~esDone
    /\ esOut' = estimate_tokens(esText)
    /\ esDone' = TRUE
    /\ UNCHANGED esText

notEstVars == <<backVars, frontVars, wireVars, callsVars, ctxVars, regVars, bridgeVars>>

EstNext == EstimateTokensCall /\ UNCHANGED notEstVars

EstSpec == EstInit /\ [][EstNext]_vars

\* C32: estimate_tokens(text) is the ceiling of len(text)/4 (the least k with
\* 4k >= len), is 0 for the empty text, and no text that is at most as long
\* gets a larger estimate.
C32_CeilingOfQuarter ==
    esDone =>
        /\ CHARS_PER_TOKEN * esOut >= TextLen(esText)
        /\ CHARS_PER_TOKEN * esOut < TextLen(esText) + CHARS_PER_TOKEN
        /\ (esText = << >> => esOut = 0)
        /\ \A u \in EstTexts :
              TextLen(u) <= TextLen(esText) => estimate_tokens(u) <= esOut

\* "Hello, human!" and "Hi": 15 characters, 4 tokens; not a multiple of four
C32_Witness ==
    /\ esDone
    /\ esText = <<"Hello, human!", "Hi">>
    /\ esOut = 4


----------------------------------------------------------------------------
(* agent/gemini_oauth.rs: discovery, onboarding and polling, the claims *)

\* C35: poll_operation stops at the first poll response that reports
\* done = true: after such a response no further poll request is sent.
C35_StopsAtCompletion ==
    [][ (lastPoll \in {"done", "done_no_project"}) => (pollRequests' = pollRequests)
      ]_vars

\* C36: the onboarding request is sent only after a discovery answer that did
\* not yield a provisioned project (a non-success status included); a complete
\* onboarding response is never polled and its project id is the result; one
\* that names a pending operation enters the polling loop; a non-success
\* onboarding status ends the resolution with an authentication error.
C36_OnboardingSteps ==
    [][ /\ onboardRequests' # onboardRequests =>
              lastLoad' \in {"non_success", "not_provisioned"}
        /\ lastLoad' = "provisioned" =>
              onboardRequests' = 0 /\ projResult' = ProjOk("loaded-project")
        /\ (lastOnboard'.kind = "data" /\ lastOnboard'.done) =>
              /\ pollRequests' = 0
              /\ ppc' = "done"
              /\ lastOnboard'.project => projResult' = ProjOk("onboarded-project")
        /\ pollRequests' # pollRequests =>
              lastOnboard.kind = "data" /\ lastOnboard.name /\ ~lastOnboard.done
        /\ (ppc = "onboarding" /\ lastOnboard'.kind = "data"
                /\ lastOnboard'.name /\ ~lastOnboard'.done) =>
              ppc' = "sleeping" /\ PollAgain(pollWaits')
        /\ lastOnboard'.kind = "non_success" =>
              /\ ppc' = "done"
              /\ projResult'.status = "err"
              /\ projResult'.error.kind = "Auth"
              /\ pollRequests' = 0
      ]_vars

\* discovery answered with a non-success status, onboarding with a complete
\* named operation that carries the project: used without a poll
C36_Witness ==
    /\ lastLoad = "non_success"
    /\ lastOnboard = [kind |-> "data", name |-> TRUE, done |-> TRUE, project |-> TRUE]
    /\ projResult = ProjOk("onboarded-project")
    /\ pollRequests = 0


----------------------------------------------------------------------------
(* agent/gemini_oauth.rs: chat calls following one another on one client *)

\* chat calls after the first
MaxChatCalls == 1

\* the next chat call on the client: get_or_fetch_project_id starts again with
\* the fields of the client as they are (&self: project_id is never assigned)
NextChatCall ==
    /\ ppc = "done"
    /\ chatCalls < MaxChatCalls
    /\ chatCalls' = chatCalls + 1
    /\ ppc' = "idle"
    /\ pollWaits' = 0
    /\ lastPoll' = "none"
    /\ UNCHANGED <<project_id, env, loadRequests, onboardRequests, pollRequests, waited,
                   projResult, lastLoad, lastOnboard>>

notCallsVars == <<frontVars, wireVars, estVars, ctxVars, regVars, bridgeVars>>

ProjCallsNext ==
    \/ ProjNext
    \/ NextChatCall /\ UNCHANGED <<loopVars, bmVars, authVars, cbVars, retryVars,
                                   notCallsVars>>

ProjCallsSpec == ProjInit /\ [][ProjCallsNext]_vars

\* C33: once a chat call has resolved the project identifier, later chat
\* calls on the client send no discovery and no onboarding request.
C33_ResolvedOnce ==
    [][ (projResult.status = "ok") =>
            (loadRequests' = loadRequests /\ onboardRequests' = onboardRequests)
      ]_vars


----------------------------------------------------------------------------
(* auth/provider.rs: a failed authorization attempt *)

\* get_valid_token has returned an error from the callback or the exchange step
FailedInCallbackOrExchange ==
    /\ apc = "done"
    /\ authResult.status = "err"
    /\ listenerBinds > 0
    /\ ~IsSome(tokenResp)

\* C37: a token-exchange request is sent only for a callback that was read,
\* carries no error, carries the state of the attempt and carries a code; and
\* when get_valid_token fails in the callback or the exchange step the
\* credential file is as get_valid_token found it and was never written.
C37_FailedAttemptFrame ==
    [][ /\ exchangeRequests' # exchangeRequests =>
              /\ callbackRead'.line = "ok"
              /\ ~callbackRead'.error
              /\ callbackRead'.state = Some(state)
              /\ callbackRead'.code
        /\ FailedInCallbackOrExchange' =>
              /\ credFile' = fileAtCall
              /\ fileWrites' = 0
      ]_vars

\* the user denied access with credentials stored: no exchange, file as it was
C37_Witness ==
    /\ FailedInCallbackOrExchange
    /\ callbackRead.error
    /\ callbackRead.code
    /\ exchangeRequests = 0
    /\ credFile.state = "present"
    /\ credFile = fileAtCall

\* the exchange was refused with credentials stored: file as it was
C37_ExchangeWitness ==
    /\ FailedInCallbackOrExchange
    /\ exchangeRequests = 1
    /\ credFile.state = "present"


----------------------------------------------------------------------------
(* agent/context.rs: the cached bootstrap text *)

\* the bootstrap files whose content varies (the others stay absent)
MaxVaried == 2

\* what a bootstrap file may be: absent, unreadable, or one of two contents
FileContents == {"absent", "unreadable", "v1", "v2"}

\* what file i may be: AGENTS.md anything, the next ones absent or present,
\* the others absent
ContentsOf(i) ==
    IF i = 1 THEN FileContents
    ELSE IF i <= MaxVaried THEN {"absent", "v1"}
    ELSE {"absent"}

\* the workspaces met
Workspaces ==
    { fs \in [DOMAIN BOOTSTRAP_FILES -> FileContents] :
        \A i \in DOMAIN BOOTSTRAP_FILES : fs[i] \in ContentsOf(i) }

\* `path.exists()` and `read_to_string(&path)` is Ok
Readable(fs, i) == fs[i] \notin {"absent", "unreadable"}

RECURSIVE bootstrap_parts(_, _)
\* the loop of load_bootstrap_files_static from file i on, joined by "\n\n"
bootstrap_parts(fs, i) ==
    IF i > Len(BOOTSTRAP_FILES) THEN << >>
    ELSE LET rest == bootstrap_parts(fs, i + 1)
         IN  IF Readable(fs, i)
             THEN <<"## ", BOOTSTRAP_FILES[i], "\n\n", fs[i]>>
                  \o (IF rest = << >> THEN << >> ELSE <<"\n\n">> \o rest)
             ELSE rest

\* Context::load_bootstrap_files_static(workspace)
load_bootstrap_files_static(fs) == bootstrap_parts(fs, 1)

\* faulty variant: the prompt reads the bootstrap files again
BootstrapFromDisk(cached, fs) == load_bootstrap_files_static(fs)
\* `self.cached_bootstrap.clone()`: the bootstrap text of the prompt
BootstrapOfPrompt(cached, fs) == cached

\* build_system_prompt's parts joined by "\n\n---\n\n": the identity, the
\* bootstrap text when not empty, the memory when not empty (no skills)
JoinPrompt(bootstrap, memory) ==
    <<"<identity>">>
    \o (IF bootstrap = << >> THEN << >> ELSE <<"\n\n---\n\n">> \o bootstrap)
    \o (IF memory = << >> THEN << >> ELSE <<"\n\n---\n\n", "# Memory\n\n">> \o memory)

CtxInit ==
    /\ BackIdle
    /\ FrontIdle
    /\ WireIdle
    /\ EstIdle
    /\ CallsIdle
    /\ RegIdle
    /\ BridgeIdle
    /\ cpc = "none"
    /\ files \in Workspaces
    /\ memoryText = << >>
    /\ cached_bootstrap = << >>
    /\ loadedFiles = NoFiles
    /\ ctxOp = "none"
    /\ ctxPrompt = << >>

\* Context::new(config)
ContextNew ==
    /\ cpc = "none"
    /\ cpc' = "ready"
    /\ cached_bootstrap' = load_bootstrap_files_static(files)
    /\ loadedFiles' = files
    /\ ctxOp' = "new"
    /\ UNCHANGED <<files, memoryText, ctxPrompt>>

\* somebody edits, adds or removes a bootstrap file
FileChanges ==
    /\ \E i \in 1..MaxVaried : \E c \in ContentsOf(i) :
        /\ c # files[i]
        /\ files' = [files EXCEPT ![i] = c]
    /\ ctxOp' = "file"
    /\ UNCHANGED <<cpc, memoryText, cached_bootstrap, loadedFiles, ctxPrompt>>

\* the memory tool adds or clears an entry
MemoryChanges ==
    /\ cpc = "ready"
    /\ memoryText' = IF memoryText = << >> THEN <<"Owner's name is X">> ELSE << >>
    /\ ctxOp' = "memory"
    /\ UNCHANGED <<cpc, files, cached_bootstrap, loadedFiles, ctxPrompt>>

\* ctx.build_system_prompt(), also as the first step of build_messages
BuildSystemPrompt ==
    /\ cpc = "ready"
    /\ ctxPrompt' = JoinPrompt(BootstrapOfPrompt(cached_bootstrap, files), memoryText)
    /\ ctxOp' = "build"
    /\ UNCHANGED <<cpc, files, memoryText, cached_bootstrap, loadedFiles>>

\* ctx.reload_bootstrap()
ReloadBootstrap ==
    /\ cpc = "ready"
    /\ cached_bootstrap' = load_bootstrap_files_static(files)
    /\ loadedFiles' = files
    /\ ctxOp' = "reload"
    /\ UNCHANGED <<cpc, files, memoryText, ctxPrompt>>

notCtxVars == <<backVars, frontVars, wireVars, estVars, callsVars, regVars, bridgeVars>>

CtxNext ==
    \/ ContextNew /\ UNCHANGED notCtxVars
    \/ FileChanges /\ UNCHANGED notCtxVars
    \/ MemoryChanges /\ UNCHANGED notCtxVars
    \/ BuildSystemPrompt /\ UNCHANGED notCtxVars
    \/ ReloadBootstrap /\ UNCHANGED notCtxVars

CtxSpec == CtxInit /\ [][CtxNext]_vars

\* C38: the prompt build_system_prompt returns carries the bootstrap text of
\* the files as they were at the last load (Context::new or reload_bootstrap),
\* whatever the files are now; the cached text changes in no step but a load,
\* and after a reload it is the text of the files at that reload.
C38_CachedBootstrap ==
    [][ /\ ctxOp' = "build" =>
              ctxPrompt' = JoinPrompt(load_bootstrap_files_static(loadedFiles),
                                      memoryText)
        /\ cached_bootstrap' # cached_bootstrap => ctxOp' \in {"new", "reload"}
        /\ ctxOp' \in {"new", "reload"} =>
              cached_bootstrap' = load_bootstrap_files_static(files)
        /\ ctxOp' \notin {"new", "reload"} =>
              cached_bootstrap' = cached_bootstrap /\ loadedFiles' = loadedFiles
      ]_vars

\* a prompt built after AGENTS.md changed on disk still carries the old text
C38_Witness ==
    /\ ctxOp = "build"
    /\ loadedFiles[1] = "v1"
    /\ files[1] = "v2"
    /\ ctxPrompt = <<"<identity>", "\n\n---\n\n", "## ", "AGENTS.md", "\n\n", "v1">>

\* after a reload the prompt carries the new text
C38_ReloadWitness ==
    /\ ctxOp = "build"
    /\ loadedFiles[1] = "v2"
    /\ cached_bootstrap = <<"## ", "AGENTS.md", "\n\n", "v2">>
    /\ ctxPrompt = <<"<identity>", "\n\n---\n\n", "## ", "AGENTS.md", "\n\n", "v2">>


----------------------------------------------------------------------------
(* tools/runner.rs: register, definitions and execute on one ToolRunner *)

\* the tools given to register: DummyTool { name, result }
DummyTools == [name : ToolNames, result : {"success", "other"}]

\* faulty variant: the tool is filed under what it returns
KeyByResult(tool) == tool.result
\* `tool.name().to_string()`: the key of the tool in the map
KeyOf(tool) == tool.name

\* HashMap::insert(key, tool): the entry of the key is replaced or added
register(reg, tool) ==
    [k \in DOMAIN reg \cup {KeyOf(tool)} |-> IF k = KeyOf(tool) THEN tool ELSE reg[k]]

\* Tool::to_definition
to_definition(tool) ==
    [name |-> tool.name, description |-> "Dummy tool for testing"]

\* the orders `self.tools.values()` may give: every order of the keys
ValueOrders(reg) ==
    { o \in [1..Cardinality(DOMAIN reg) -> DOMAIN reg] :
        \A i, j \in DOMAIN o : o[i] = o[j] => i = j }

RegInit ==
    /\ BackIdle
    /\ FrontIdle
    /\ WireIdle
    /\ EstIdle
    /\ CallsIdle
    /\ CtxIdle
    /\ BridgeIdle
    /\ runnerTools = << >>
    /\ lastRegistered = NoTool
    /\ regDefs = << >>
    /\ regAsked = ""
    /\ regOut = << >>
    /\ regOp = "none"

\* runner.register(tool)
Register ==
    /\ \E tool \in DummyTools :
        /\ runnerTools' = register(runnerTools, tool)
        /\ lastRegistered' = tool
    /\ regOp' = "register"
    /\ UNCHANGED <<regDefs, regAsked, regOut>>

\* runner.definitions()
Definitions ==
    /\ \E o \in ValueOrders(runnerTools) :
        regDefs' = [i \in DOMAIN o |-> to_definition(runnerTools[o[i]])]
    /\ regOp' = "definitions"
    /\ UNCHANGED <<runnerTools, lastRegistered, regAsked, regOut>>

\* runner.execute(name, params).await on the DummyTools: the tool found
\* returns its result
ExecuteRegistered ==
    /\ \E name \in AskedNames :
        /\ regAsked' = name
        /\ regOut' = IF Lookup(runnerTools, name) = None
                     THEN Err(ErrorOf("Tool", <<"Unknown tool: ", name>>))
                     ELSE Ok(<<runnerTools[name].result>>)
    /\ regOp' = "execute"
    /\ UNCHANGED <<runnerTools, lastRegistered, regDefs>>

notRegVars == <<backVars, frontVars, wireVars, estVars, callsVars, ctxVars, bridgeVars>>

RegNext ==
    \/ Register /\ UNCHANGED notRegVars
    \/ Definitions /\ UNCHANGED notRegVars
    \/ ExecuteRegistered /\ UNCHANGED notRegVars

RegSpec == RegInit /\ [][RegNext]_vars

\* the names of the tools the runner holds, one per tool
HeldNames == { runnerTools[k].name : k \in DOMAIN runnerTools }

\* C39: after any sequence of register calls the runner holds at most one
\* tool per name; definitions() returns one definition per tool held and no
\* two with the same name; a tool registered under a name is the one held
\* under it afterwards, the others staying as they were; and execute finds
\* every name definitions() returned.
C39_OneToolPerName ==
    [][ /\ Cardinality(HeldNames') = Cardinality(DOMAIN runnerTools')
        /\ \A i, j \in DOMAIN regDefs' : regDefs'[i].name = regDefs'[j].name => i = j
        /\ regOp' = "definitions" =>
              /\ Len(regDefs') = Cardinality(DOMAIN runnerTools)
              /\ { regDefs'[i].name : i \in DOMAIN regDefs' } = HeldNames
        /\ regOp' = "register" =>
              /\ lastRegistered'.name \in DOMAIN runnerTools'
              /\ runnerTools'[lastRegistered'.name] = lastRegistered'
              /\ \A k \in DOMAIN runnerTools :
                    k # lastRegistered'.name =>
                        k \in DOMAIN runnerTools' /\ runnerTools'[k] = runnerTools[k]
              /\ DOMAIN runnerTools' = DOMAIN runnerTools \cup {lastRegistered'.name}
        /\ \A i \in DOMAIN regDefs' : Lookup(runnerTools', regDefs'[i].name) # None
        /\ (regOp' = "execute"
                /\ regAsked' \in { regDefs'[i].name : i \in DOMAIN regDefs' }) =>
              regOut' = Ok(<<runnerTools[regAsked'].result>>)
      ]_vars

\* read_file registered twice with different tools: one definition, and
\* execute runs the second
C39_Witness ==
    /\ DOMAIN runnerTools = {"read_file", "test_tool"}
    /\ runnerTools["read_file"].result = "other"
    /\ lastRegistered = [name |-> "read_file", result |-> "other"]
    /\ Len(regDefs) = 2
    /\ regAsked = "read_file"
    /\ regOut = Ok(<<"other">>)


----------------------------------------------------------------------------
(* tools/browser_bridge.rs: handle_connection tasks and the tool's execute *)

\* the connections the listener accepts, each handled by its own task
MaxConns == 2
Conns == 1..MaxConns

BridgeInit ==
    /\ BackIdle
    /\ FrontIdle
    /\ WireIdle
    /\ EstIdle
    /\ CallsIdle
    /\ CtxIdle
    /\ RegIdle
    /\ bpc = [c \in Conns |-> "none"]
    /\ command_sender = None
    /\ bridgeOut = "none"
    /\ bridgeTo = 0

\* listener.accept() gives a stream and its handler task is spawned
AcceptConnection(c) ==
    /\ bpc[c] = "none"
    /\ bpc' = [bpc EXCEPT ![c] = "handshake"]
    /\ UNCHANGED <<command_sender, bridgeOut, bridgeTo>>

\* accept_async fails: `?` returns before anything is stored
HandshakeFails(c) ==
    /\ bpc[c] = "handshake"
    /\ bpc' = [bpc EXCEPT ![c] = "finished"]
    /\ UNCHANGED <<command_sender, bridgeOut, bridgeTo>>

\* `*guard = Some(tx)`: the sender of this connection's channel replaces
\* whatever was stored
StoreSender(stored, c) == Some(c)

\* the handshake is done: the channel is created and its sender stored
Established(c) ==
    /\ bpc[c] = "handshake"
    /\ command_sender' = StoreSender(command_sender, c)
    /\ bpc' = [bpc EXCEPT ![c] = "serving"]
    /\ UNCHANGED <<bridgeOut, bridgeTo>>

\* the browser closes the connection, or the socket fails or ends: break
BrowserCloses(c) ==
    /\ bpc[c] = "serving"
    /\ bpc' = [bpc EXCEPT ![c] = "leaving"]
    /\ UNCHANGED <<command_sender, bridgeOut, bridgeTo>>

\* rx.recv() gives None: every sender of this connection's channel is gone,
\* the stored one having been replaced by another connection's or cleared
ChannelClosed(c) ==
    /\ bpc[c] = "serving"
    /\ command_sender # Some(c)
    /\ bpc' = [bpc EXCEPT ![c] = "leaving"]
    /\ UNCHANGED <<command_sender, bridgeOut, bridgeTo>>

\* `*guard = None` after the loop
Cleared(stored, c) == None

\* the cleanup after the loop, and the return
Cleanup(c) ==
    /\ bpc[c] = "leaving"
    /\ command_sender' = Cleared(command_sender, c)
    /\ bpc' = [bpc EXCEPT ![c] = "finished"]
    /\ UNCHANGED <<bridgeOut, bridgeTo>>

\* BrowserBridgeTool::execute: the stored sender is cloned and the command
\* sent on it; the send fails when the receiver is gone
ExecuteBrowser ==
    /\ IF command_sender = None
       THEN bridgeOut' = "No browser connected!" /\ bridgeTo' = 0
       ELSE IF bpc[command_sender[1]] = "finished"
       THEN bridgeOut' = "Failed to send command to browser" /\ bridgeTo' = 0
       ELSE bridgeOut' = "sent" /\ bridgeTo' = command_sender[1]
    /\ UNCHANGED <<bpc, command_sender>>

notBridgeVars == <<backVars, frontVars, wireVars, estVars, callsVars, ctxVars, regVars>>

BridgeNext ==
    \/ \E c \in Conns : AcceptConnection(c) /\ UNCHANGED notBridgeVars
    \/ \E c \in Conns : HandshakeFails(c) /\ UNCHANGED notBridgeVars
    \/ \E c \in Conns : Established(c) /\ UNCHANGED notBridgeVars
    \/ \E c \in Conns : BrowserCloses(c) /\ UNCHANGED notBridgeVars
    \/ \E c \in Conns : ChannelClosed(c) /\ UNCHANGED notBridgeVars
    \/ \E c \in Conns : Cleanup(c) /\ UNCHANGED notBridgeVars
    \/ ExecuteBrowser /\ UNCHANGED notBridgeVars

BridgeSpec == BridgeInit /\ [][BridgeNext]_vars

\* the connections whose handler is in its loop: the sender was stored and the
\* loop has not been left
ActiveConns == { c \in Conns : bpc[c] = "serving" }

\* C40: whenever a connection handler is active, command_sender is set and
\* refers to an active connection; it is empty only when none is active.
C40_SenderWhileConnected ==
    ActiveConns # {} =>
        command_sender # None /\ command_sender[1] \in ActiveConns

=============================================================================
